---- MODULE Spec2Model ----
(***************************************************************************)
(* A model of the vibe-app front end: the reference-data fetch hooks       *)
(* (useServiceCategories, useServiceSubcategories), the HomePage           *)
(* auth-change subscription and sign-out handler, the ProfilePage          *)
(* handlers (handleSubmit, handleSaveServices, addService, removeService)  *)
(* and the ServiceForm submit handler.                                     *)
(*                                                                         *)
(* The browser runs handlers on one thread: every action below is the      *)
(* synchronous part of a handler up to its next await, or the continuation *)
(* that runs when an awaited backend call completes.                       *)
(***************************************************************************)
EXTENDS Integers, Sequences, FiniteSets, TLC

VARIABLES
    \* ---- AddServicePage with useServiceCategories / useServiceSubcategories
    pagePhase,        \* "init" (rendered, effects not yet run), "mounted", "unmounted"
    selectedCategory, \* the categoryId passed to useServiceSubcategories
    subState,         \* state of useServiceSubcategories
    subEffect,        \* number of the latest run of its effect (0: none yet)
    subMounted,       \* the `mounted` flag closed over by each effect run
    subFetches,       \* the getServicesBySubcategory calls issued, each with its status
    catState,         \* state of useServiceCategories
    catMounted,       \* the `mounted` flag of its (single) effect run
    catFetch          \* status of the getServiceCategories call

hookVars == <<pagePhase, selectedCategory, subState, subEffect, subMounted,
              subFetches, catState, catMounted, catFetch>>

VARIABLES
    \* ---- Session Store (authSlice) and router, shared by the pages
    auth,             \* state.auth: [user, loading, error]
    dispatchedBy,     \* the code that made the latest dispatch of setUser
    route             \* the location the router was last sent to

storeVars == <<auth, dispatchedBy, route>>

VARIABLES
    \* ---- HomePage
    provider,         \* which HomePage is built: "supabase" or "firebase"
    session,          \* the auth provider's current session user
    homeMounted,      \* HomePage is mounted and its subscription is active
    homeFetches,      \* the getUserProfile calls started, each with its status
    logout,           \* position of handleLogout
    authEvents        \* number of auth-change events so far

homeVars == <<provider, session, homeMounted, homeFetches, logout, authEvents>>

VARIABLES
    \* ---- ProfilePage
    profMounted,      \* the page is mounted (its effect has run)
    name, email, bio, \* the profile form fields
    services,         \* the draft list of services
    categories,       \* the loaded categories
    subcategories,    \* the loaded subcategories
    loading,          \* a save is running (disables both save buttons)
    newService,       \* the service form fields
    toast,            \* the notification raised by the latest step, if any
    fetchData,        \* how many runs of fetchData wait at each of its awaits
    unhandled,        \* a promise of the page was rejected and nobody handled it
    submit,           \* position of handleSubmit and what it closed over
    save,             \* position of handleSaveServices and what it closed over
    saveWrites,       \* the writes the latest handleSaveServices has issued
    svcStored,        \* the rows of table "services" that the identity owns
    dbUser            \* the row of the signed-in identity in table "user"

formFields == <<name, email, bio>>
referenceLists == <<categories, subcategories>>
saveRun == <<save, saveWrites, svcStored>>

profileVars == <<profMounted, formFields, services, referenceLists, loading,
                 newService, toast, fetchData, unhandled, submit, saveRun,
                 dbUser>>

VARIABLES
    \* ---- ServiceForm on the AddServicePage built on useServiceData
    formCategory,     \* selectedCategory
    formSubcategory,  \* selectedSubcategory
    formDescription,  \* text of the description textarea
    formRate,         \* text of the rate_per_hour input
    addServiceCalls   \* the arguments of the calls of add.addService so far

formVars == <<formCategory, formSubcategory, formDescription, formRate,
              addServiceCalls>>

VARIABLES
    \* ---- The gateways of lib/supabase.ts (supabaseAuth, supabaseDb,
    \* ---- supabaseStorage) and the table they read
    gwUsers,          \* the ids that have a row in table users
    gwCall,           \* the gateway operation in flight, if any
    gwResult,         \* how the latest gateway operation completed
    gwCalls           \* number of gateway operations started so far

gatewayVars == <<gwUsers, gwCall, gwResult, gwCalls>>

VARIABLES
    \* ---- The database behind its row-level-security policies
    svcRows,          \* the rows of table services: [id, user_id]
    dbReply           \* the latest statement and what it affected or returned

dbVars == <<svcRows, dbReply>>

VARIABLES
    \* ---- AddServicePage with useServiceData
    dataPhase,        \* "init" (rendered, effect not yet run), "mounted", "unmounted"
    dataState,        \* categories, subCategories, loading, error of the hook
    dataFetch         \* status of the Promise.all of fetchData

dataVars == <<dataPhase, dataState, dataFetch>>

vars == <<hookVars, storeVars, homeVars, profileVars, formVars, gatewayVars,
          dbVars, dataVars>>

\* What the actions of one page leave alone: the variables of the others.
hookFrame ==
    <<storeVars, homeVars, profileVars, formVars, gatewayVars, dbVars, dataVars>>
homeFrame ==
    <<hookVars, profileVars, formVars, gatewayVars, dbVars, dataVars>>
profileFrame ==
    <<hookVars, homeVars, formVars, gatewayVars, dbVars, dataVars>>
formFrame ==
    <<hookVars, storeVars, homeVars, profileVars, gatewayVars, dbVars, dataVars>>
gatewayFrame ==
    <<hookVars, storeVars, homeVars, profileVars, formVars, dbVars, dataVars>>
dataFrame ==
    <<hookVars, storeVars, homeVars, profileVars, gatewayVars, dbVars>>
dbFrame ==
    <<hookVars, storeVars, homeVars, profileVars, formVars, gatewayVars, dataVars>>

----------------------------------------------------------------------------
(* Values *)

Null == "null"

\* Bound on the number of times the subcategory effect runs in one page life.
MaxEffects == 3

\* Reference data held by the backend (a cut of the seed of the schema).
CategoryRows ==
    << [id |-> "c1", name |-> "Web Development"],
       [id |-> "c2", name |-> "Mobile Development"] >>

SubcategoryRows ==
    << [id |-> "s1", name |-> "Frontend Development", category_id |-> "c1"],
       [id |-> "s2", name |-> "Backend Development",  category_id |-> "c1"],
       [id |-> "s3", name |-> "iOS Development",      category_id |-> "c2"] >>

CategoryIds == { CategoryRows[i].id : i \in 1..Len(CategoryRows) }

\* INSERT INTO categories, in the order of the statement.
SeedCategoryRows ==
    << [id |-> "c1", name |-> "Web Development"],
       [id |-> "c2", name |-> "Mobile Development"],
       [id |-> "c3", name |-> "Design & Creative"],
       [id |-> "c4", name |-> "Data Science"],
       [id |-> "c5", name |-> "DevOps & Cloud"] >>

\* INSERT INTO subcategories, in the order of the statement.
SeedSubcategoryRows ==
    << [id |-> "s1", name |-> "Frontend Development", category_id |-> "c1"],
       [id |-> "s2", name |-> "Backend Development", category_id |-> "c1"],
       [id |-> "s4", name |-> "Full Stack Development", category_id |-> "c1"],
       [id |-> "s5", name |-> "E-commerce Development", category_id |-> "c1"],
       [id |-> "s6", name |-> "CMS Development", category_id |-> "c1"],
       [id |-> "s3", name |-> "iOS Development", category_id |-> "c2"],
       [id |-> "s7", name |-> "Android Development", category_id |-> "c2"],
       [id |-> "s8", name |-> "Cross-platform Development", category_id |-> "c2"],
       [id |-> "s9", name |-> "Mobile UI/UX Design", category_id |-> "c2"],
       [id |-> "s10", name |-> "UI/UX Design", category_id |-> "c3"],
       [id |-> "s11", name |-> "Graphic Design", category_id |-> "c3"],
       [id |-> "s12", name |-> "Logo Design", category_id |-> "c3"],
       [id |-> "s13", name |-> "Brand Identity", category_id |-> "c3"],
       [id |-> "s14", name |-> "Illustration", category_id |-> "c3"],
       [id |-> "s15", name |-> "Machine Learning", category_id |-> "c4"],
       [id |-> "s16", name |-> "Data Analysis", category_id |-> "c4"],
       [id |-> "s17", name |-> "Data Visualization", category_id |-> "c4"],
       [id |-> "s18", name |-> "Natural Language Processing", category_id |-> "c4"],
       [id |-> "s19", name |-> "Cloud Architecture", category_id |-> "c5"],
       [id |-> "s20", name |-> "DevOps Engineering", category_id |-> "c5"],
       [id |-> "s21", name |-> "System Administration", category_id |-> "c5"],
       [id |-> "s22", name |-> "CI/CD Pipeline", category_id |-> "c5"] >>

\* select("*").order("name") on the seeded tables (names in code-point order).
SeedCategoriesByName ==
    << [id |-> "c4", name |-> "Data Science"],
       [id |-> "c3", name |-> "Design & Creative"],
       [id |-> "c5", name |-> "DevOps & Cloud"],
       [id |-> "c2", name |-> "Mobile Development"],
       [id |-> "c1", name |-> "Web Development"] >>

SeedSubcategoriesByName ==
    << [id |-> "s7", name |-> "Android Development", category_id |-> "c2"],
       [id |-> "s2", name |-> "Backend Development", category_id |-> "c1"],
       [id |-> "s13", name |-> "Brand Identity", category_id |-> "c3"],
       [id |-> "s22", name |-> "CI/CD Pipeline", category_id |-> "c5"],
       [id |-> "s6", name |-> "CMS Development", category_id |-> "c1"],
       [id |-> "s19", name |-> "Cloud Architecture", category_id |-> "c5"],
       [id |-> "s8", name |-> "Cross-platform Development", category_id |-> "c2"],
       [id |-> "s16", name |-> "Data Analysis", category_id |-> "c4"],
       [id |-> "s17", name |-> "Data Visualization", category_id |-> "c4"],
       [id |-> "s20", name |-> "DevOps Engineering", category_id |-> "c5"],
       [id |-> "s5", name |-> "E-commerce Development", category_id |-> "c1"],
       [id |-> "s1", name |-> "Frontend Development", category_id |-> "c1"],
       [id |-> "s4", name |-> "Full Stack Development", category_id |-> "c1"],
       [id |-> "s11", name |-> "Graphic Design", category_id |-> "c3"],
       [id |-> "s14", name |-> "Illustration", category_id |-> "c3"],
       [id |-> "s12", name |-> "Logo Design", category_id |-> "c3"],
       [id |-> "s15", name |-> "Machine Learning", category_id |-> "c4"],
       [id |-> "s9", name |-> "Mobile UI/UX Design", category_id |-> "c2"],
       [id |-> "s18", name |-> "Natural Language Processing", category_id |-> "c4"],
       [id |-> "s21", name |-> "System Administration", category_id |-> "c5"],
       [id |-> "s10", name |-> "UI/UX Design", category_id |-> "c3"],
       [id |-> "s3", name |-> "iOS Development", category_id |-> "c2"] >>

\* A filter that lets every row through.
FilterByCategory_All(rows, categoryId) == rows

RECURSIVE FilterByCategory(_, _)
FilterByCategory(rows, categoryId) ==
    IF rows = <<>> THEN <<>>
    ELSE IF Head(rows).category_id = categoryId
         THEN <<Head(rows)>> \o FilterByCategory(Tail(rows), categoryId)
         ELSE FilterByCategory(Tail(rows), categoryId)

\* What a call of getServicesBySubcategory(categoryId) can complete with:
\* the rows of that category, null, or an exception.
FetchOutcomes == {"rows", "null", "throw"}

getServicesBySubcategory(categoryId, outcome) ==
    IF outcome = "rows" THEN FilterByCategory(SubcategoryRows, categoryId)
    ELSE <<>>   \* `subCategories || []`

FetchErrorMessage == "Failed to fetch"

----------------------------------------------------------------------------
(* useServiceSubcategories *)

SubInitialState == [subCategories |-> <<>>, loading |-> FALSE, error |-> Null]

\* A call is "pending" until it completes; its continuation then either
\* writes the hook state ("applied") or returns at `if (!mounted) return`
\* ("discarded").
Pending(fetches) == { f \in fetches : f.status = "pending" }

Completed(f, status) == [f EXCEPT !.status = status]

\* SubEffectBody without the `if (!categoryId)` short cut.
SubEffectBody_NoEmptyCheck(categoryId, eff) ==
    /\ subState' = [subState EXCEPT !.loading = TRUE]
    /\ subFetches' = subFetches \cup
           {[eff |-> eff, categoryId |-> categoryId, status |-> "pending"]}

\* The body of the effect, up to the await: fetchSubcategories().
\* `eff` is the number of this run, whose `mounted` flag starts TRUE.
SubEffectBody(categoryId, eff) ==
    IF categoryId = ""
    THEN /\ subState' = [subCategories |-> <<>>, loading |-> FALSE, error |-> Null]
         /\ subFetches' = subFetches
    ELSE /\ subState' = [subState EXCEPT !.loading = TRUE]
         /\ subFetches' = subFetches \cup
                {[eff |-> eff, categoryId |-> categoryId, status |-> "pending"]}

\* SubFetchContinuation without the `if (!mounted) return` guards.
SubFetchContinuation_NoGuard(f, outcome) ==
    /\ subFetches' = (subFetches \ {f}) \cup {Completed(f, "applied")}
    /\ IF outcome = "throw"
       THEN subState' = [subCategories |-> <<>>, loading |-> FALSE,
                         error |-> FetchErrorMessage]
       ELSE subState' = [subCategories |->
                             getServicesBySubcategory(f.categoryId, outcome),
                         loading |-> FALSE, error |-> Null]

\* SubFetchContinuation whose catch branch records the error and leaves
\* loading as it is.
SubFetchContinuation_CatchKeepsLoading(f, outcome) ==
    IF ~subMounted[f.eff]
    THEN /\ subState' = subState
         /\ subFetches' = (subFetches \ {f}) \cup {Completed(f, "discarded")}
    ELSE /\ subFetches' = (subFetches \ {f}) \cup {Completed(f, "applied")}
         /\ IF outcome = "throw"
            THEN subState' = [subState EXCEPT !.error = FetchErrorMessage]
            ELSE subState' = [subCategories |->
                                  getServicesBySubcategory(f.categoryId, outcome),
                              loading |-> FALSE, error |-> Null]

\* The continuation after the await of one fetch: success or catch branch,
\* each guarded by `if (!mounted) return`.
SubFetchContinuation(f, outcome) ==
    IF ~subMounted[f.eff]
    THEN /\ subState' = subState
         /\ subFetches' = (subFetches \ {f}) \cup {Completed(f, "discarded")}
    ELSE /\ subFetches' = (subFetches \ {f}) \cup {Completed(f, "applied")}
         /\ IF outcome = "throw"
            THEN subState' = [subCategories |-> <<>>, loading |-> FALSE,
                              error |-> FetchErrorMessage]
            ELSE subState' = [subCategories |->
                                  getServicesBySubcategory(f.categoryId, outcome),
                              loading |-> FALSE, error |-> Null]

----------------------------------------------------------------------------
(* useServiceCategories *)

CatInitialState ==
    [categories |-> <<>>, subCategories |-> <<>>, loading |-> TRUE, error |-> Null]

\* getServiceCategories(): both lists, each `|| []`.
getServiceCategories(outcome) ==
    IF outcome = "rows"
    THEN [categories |-> CategoryRows, subCategories |-> SubcategoryRows]
    ELSE [categories |-> <<>>, subCategories |-> <<>>]

\* CatFetchContinuation without the `if (!mounted) return` guards.
CatFetchContinuation_NoGuard(outcome) ==
    /\ catFetch' = "applied"
    /\ IF outcome = "throw"
       THEN catState' = [catState EXCEPT !.loading = FALSE,
                                         !.error = FetchErrorMessage]
       ELSE catState' = [categories |-> getServiceCategories(outcome).categories,
                         subCategories |-> getServiceCategories(outcome).subCategories,
                         loading |-> FALSE, error |-> Null]

CatFetchContinuation(outcome) ==
    IF ~catMounted
    THEN /\ catState' = catState
         /\ catFetch' = "discarded"
    ELSE /\ catFetch' = "applied"
         /\ IF outcome = "throw"
            THEN catState' = [catState EXCEPT !.loading = FALSE,
                                              !.error = FetchErrorMessage]
            ELSE catState' = [categories |-> getServiceCategories(outcome).categories,
                              subCategories |-> getServiceCategories(outcome).subCategories,
                              loading |-> FALSE, error |-> Null]

----------------------------------------------------------------------------
(* The page that hosts both hooks *)

HookInit ==
    /\ pagePhase = "init"
    /\ selectedCategory \in {""} \cup CategoryIds
    /\ subState = SubInitialState
    /\ subEffect = 0
    /\ subMounted = [e \in 1..MaxEffects |-> FALSE]
    /\ subFetches = {}
    /\ catState = CatInitialState
    /\ catMounted = FALSE
    /\ catFetch = "none"

\* First commit: both effects run.
PageMount ==
    /\ pagePhase = "init"
    /\ pagePhase' = "mounted"
    /\ catMounted' = TRUE
    /\ catFetch' = "pending"
    /\ subEffect' = 1
    /\ subMounted' = [subMounted EXCEPT ![1] = TRUE]
    /\ SubEffectBody(selectedCategory, 1)
    /\ UNCHANGED <<selectedCategory, catState>>
    /\ UNCHANGED hookFrame

\* categoryId changes: the cleanup of the previous run, then the effect again.
CategoryChange(c) ==
    /\ pagePhase = "mounted"
    /\ c # selectedCategory
    /\ subEffect < MaxEffects
    /\ selectedCategory' = c
    /\ subEffect' = subEffect + 1
    /\ subMounted' = [subMounted EXCEPT ![subEffect] = FALSE, ![subEffect + 1] = TRUE]
    /\ SubEffectBody(c, subEffect + 1)
    /\ UNCHANGED <<pagePhase, catState, catMounted, catFetch>>
    /\ UNCHANGED hookFrame

SubFetchComplete(f, outcome) ==
    /\ f \in Pending(subFetches)
    /\ SubFetchContinuation(f, outcome)
    /\ UNCHANGED <<pagePhase, selectedCategory, subEffect, subMounted,
                   catState, catMounted, catFetch>>
    /\ UNCHANGED hookFrame

CatFetchComplete(outcome) ==
    /\ catFetch = "pending"
    /\ CatFetchContinuation(outcome)
    /\ UNCHANGED <<pagePhase, selectedCategory, subState, subEffect, subMounted,
                   subFetches, catMounted>>
    /\ UNCHANGED hookFrame

\* Unmount: the cleanups of both effects; requests in flight stay in flight.
PageUnmount ==
    /\ pagePhase = "mounted"
    /\ pagePhase' = "unmounted"
    /\ subMounted' = [subMounted EXCEPT ![subEffect] = FALSE]
    /\ catMounted' = FALSE
    /\ UNCHANGED <<selectedCategory, subState, subEffect, subFetches,
                   catState, catFetch>>
    /\ UNCHANGED hookFrame

HookNext ==
    \/ PageMount
    \/ \E c \in {""} \cup CategoryIds : CategoryChange(c)
    \/ \E f \in subFetches, o \in FetchOutcomes : SubFetchComplete(f, o)
    \/ \E o \in FetchOutcomes : CatFetchComplete(o)
    \/ PageUnmount

----------------------------------------------------------------------------
(* Session Store *)

Login == "/auth/login"
Home == "/"

\* `null` as the store's user.
NullUser == [id |-> Null]

StoreInitialState == [user |-> NullUser, loading |-> TRUE, error |-> Null]

\* A reducer that leaves loading set.
setUser_StillLoading(payload) == [user |-> payload, loading |-> TRUE, error |-> Null]

\* The reducer: state.user = payload; state.loading = false; state.error = null.
setUser(payload) == [user |-> payload, loading |-> FALSE, error |-> Null]

\* dispatch(setUser(payload)) made by the code `by`.
Dispatch(payload, by) ==
    /\ auth' = setUser(payload)
    /\ dispatchedBy' = by

\* The payloads the pages dispatch: null, the userData of the supabase
\* HomePage (also as merged by handleSubmit) and that of the firebase one.
Payloads ==
    {NullUser}
    \cup [id : {"u1", "u2"}, email : {Null, "a@x"}, name : {Null, "Ann"},
          created_at : {"now"}]
    \cup [uid : {"u1", "u2"}, email : {Null, "a@x"}, displayName : {Null, "Ann"},
          photoURL : {Null}]

\* The states of the slice: its reducers other than setUser are not shown,
\* so loading and error can hold any value.
StoreStates == [user : Payloads, loading : BOOLEAN, error : {Null, "auth error"}]

\* A component dispatches setUser(payload).
StoreDispatch(payload, by) ==
    /\ Dispatch(payload, by)
    /\ UNCHANGED route
    /\ UNCHANGED <<hookVars, homeVars, profileVars, formVars, gatewayVars, dbVars,
                   dataVars>>

StoreNext ==
    \E payload \in Payloads, by \in {"onAuthStateChange", "handleSubmit"} :
        StoreDispatch(payload, by)

----------------------------------------------------------------------------
(* HomePage: auth-change subscription and handleLogout *)

\* Bound on the number of auth-change events in one run.
MaxAuthEvents == 3

NoSession == [id |-> Null, email |-> Null]

\* The identities that can sign in (one of them has no e-mail address).
SessionUsers == { [id |-> "u1", email |-> "a@x"], [id |-> "u2", email |-> Null] }

\* What the query on the `user` table in getUserProfile can complete with:
\* the profile row, no row (maybeSingle gives null), or an error.
ProfileOutcomes == {"row", "none", "error"}

\* A name whether or not there is a row.
ProfileName_Placeholder(outcome) == "Ann"

\* profileData?.name || null
ProfileName(outcome) == IF outcome = "row" THEN "Ann" ELSE Null
ProfileCreatedAt(outcome) == IF outcome = "row" THEN "created" ELSE "now"

\* What signOut can complete with.  supabase.auth.signOut() resolves to
\* {error} or throws; firebase's signOut(auth) resolves or throws.
SignOutOutcomes == IF provider = "supabase" THEN {"ok", "error", "throw"}
                   ELSE {"ok", "throw"}

\* The callback given to onAuthStateChange / onAuthStateChanged, called with
\* the session user `s` as event number `n`.
AuthCallback(s, n) ==
    IF s # NoSession
    THEN IF provider = "supabase"
         THEN \* getUserProfile() is started and not awaited
              /\ homeFetches' = homeFetches \cup
                     {[n |-> n, user |-> s, status |-> "pending"]}
              /\ UNCHANGED <<auth, dispatchedBy, route>>
         ELSE /\ Dispatch([uid |-> s.id, email |-> s.email,
                           displayName |-> Null, photoURL |-> Null],
                          "onAuthStateChange")
              /\ UNCHANGED <<homeFetches, route>>
    ELSE /\ Dispatch(NullUser, "onAuthStateChange")
         /\ route' = Login
         /\ UNCHANGED homeFetches

HomeInit ==
    /\ auth = StoreInitialState
    /\ dispatchedBy = "none"
    /\ route = Home
    /\ provider \in {"supabase", "firebase"}
    /\ session \in {NoSession} \cup SessionUsers
    /\ homeMounted = FALSE
    /\ homeFetches = {}
    /\ logout = "idle"
    /\ authEvents = 0

\* The page is opened: the effect subscribes to the provider's change stream.
HomeMount ==
    /\ ~homeMounted
    /\ homeMounted' = TRUE
    /\ route' = Home
    /\ UNCHANGED <<auth, dispatchedBy, provider, session, homeFetches, logout,
                   authEvents>>
    /\ UNCHANGED homeFrame

\* The effect's cleanup: subscription.unsubscribe() / unsubscribe().
HomeUnmount ==
    /\ homeMounted
    /\ homeMounted' = FALSE
    /\ UNCHANGED <<auth, dispatchedBy, route, provider, session, homeFetches,
                   logout, authEvents>>
    /\ UNCHANGED homeFrame

\* The provider reports its session: the initial event after subscribing, a
\* sign-in, a refresh, or a sign-out made elsewhere.
AuthStateChange(s) ==
    /\ authEvents < MaxAuthEvents
    /\ logout # "awaiting"
    /\ authEvents' = authEvents + 1
    /\ session' = s
    /\ IF homeMounted
       THEN AuthCallback(s, authEvents + 1)
       ELSE UNCHANGED <<auth, dispatchedBy, route, homeFetches>>
    /\ UNCHANGED <<provider, homeMounted, logout>>
    /\ UNCHANGED homeFrame

\* getUserProfile resumes after its query.
ProfileFetchComplete(f, outcome) ==
    /\ f \in Pending(homeFetches)
    /\ IF outcome = "error"
       THEN \* `if (error) throw error`: the promise rejects, nobody handles it
            /\ homeFetches' = (homeFetches \ {f}) \cup {Completed(f, "rejected")}
            /\ UNCHANGED <<auth, dispatchedBy>>
       ELSE /\ homeFetches' = (homeFetches \ {f}) \cup {Completed(f, "applied")}
            /\ Dispatch([id |-> f.user.id, email |-> f.user.email,
                         name |-> ProfileName(outcome),
                         created_at |-> ProfileCreatedAt(outcome)],
                        "onAuthStateChange")
    /\ UNCHANGED <<route, provider, session, homeMounted, logout, authEvents>>
    /\ UNCHANGED homeFrame

\* The Sign out button (rendered only while user is set): handleLogout up to
\* its await.
HandleLogout ==
    /\ homeMounted
    /\ auth.user # NullUser
    /\ logout # "awaiting"
    /\ logout' = "awaiting"
    /\ UNCHANGED <<auth, dispatchedBy, route, provider, session, homeMounted,
                   homeFetches, authEvents>>
    /\ UNCHANGED homeFrame

\* signOut completes and handleLogout resumes.  A successful signOut clears
\* the provider's session and notifies the subscribers before it resolves.
SignOutComplete(outcome) ==
    /\ logout = "awaiting"
    /\ outcome \in SignOutOutcomes
    /\ IF outcome = "ok"
       THEN /\ session' = NoSession
            /\ IF homeMounted
               THEN Dispatch(NullUser, "onAuthStateChange")
               ELSE UNCHANGED <<auth, dispatchedBy>>
            /\ route' = Login
            /\ logout' = "done"
       ELSE IF outcome = "error"
       THEN \* the returned {error} is not looked at
            /\ route' = Login
            /\ logout' = "done"
            /\ UNCHANGED <<session, auth, dispatchedBy>>
       ELSE \* catch: console.error only
            /\ logout' = "failed"
            /\ UNCHANGED <<session, auth, dispatchedBy, route>>
    /\ UNCHANGED <<provider, homeMounted, homeFetches, authEvents>>
    /\ UNCHANGED homeFrame

HomeNext ==
    \/ HomeMount
    \/ HomeUnmount
    \/ \E s \in {NoSession} \cup SessionUsers : AuthStateChange(s)
    \/ \E f \in homeFetches, o \in ProfileOutcomes : ProfileFetchComplete(f, o)
    \/ HandleLogout
    \/ \E o \in {"ok", "error", "throw"} : SignOutComplete(o)

----------------------------------------------------------------------------
(* ProfilePage: the effect, fetchData and handleSubmit *)

\* Bound on the number of runs of fetchData that are under way at once (the
\* effect runs again when the store's user object changes).
MaxFetchRuns == 2

\* The four awaits of fetchData, in order.
FetchStages == <<"categories", "subcategories", "profile", "services">>

NoToast == "none"
ProfileUpdated == "Profile updated successfully!"
ServicesUpdated == "Services updated successfully!"
FillAllFields == "Please fill in all service fields"

\* error.message of a backend error object and of a thrown exception.
BackendError == "backend error"
NetworkError == "network error"

ErrorMessage(outcome) == IF outcome = "error" THEN BackendError ELSE NetworkError

\* What a query or write of the backend client can complete with: {error:
\* null}, {error} or an exception.
QueryOutcomes == {"ok", "error", "throw"}

\* The signed-in identity as the HomePage callback stored it.
u1 == [id |-> "u1", email |-> "a@x", name |-> Null, created_at |-> "now"]

Names == {"", "Ann"}
Emails == {"", "a@x"}
Bios == {"", "bio"}

NoRow == [id |-> Null]
ProfileRow(n, e, b) == [id |-> "u1", name |-> n, email |-> e, bio |-> b]

\* select("*").order("name") on categories and on subcategories.
CategoriesByName ==
    << [id |-> "c2", name |-> "Mobile Development"],
       [id |-> "c1", name |-> "Web Development"] >>

SubcategoriesByName ==
    << [id |-> "s2", name |-> "Backend Development",  category_id |-> "c1"],
       [id |-> "s1", name |-> "Frontend Development", category_id |-> "c1"],
       [id |-> "s3", name |-> "iOS Development",      category_id |-> "c2"] >>

\* parseFloat of the text of the rate input; a number is [nan, v].
NaN == [nan |-> TRUE, v |-> 0]
Num(n) == [nan |-> FALSE, v |-> n]

RateInputs == {"", "0", "25", "-5"}

parseFloat(text) ==
    CASE text = ""   -> NaN
      [] text = "0"  -> Num(0)
      [] text = "25" -> Num(25)
      [] text = "-5" -> Num(0 - 5)

\* JavaScript truthiness of a string and of a number.
Truthy(str) == str # ""
TruthyNumber(r) == ~r.nan /\ r.v # 0

DefaultNewService ==
    [category_id |-> "", subcategory_id |-> "", description |-> "",
     rate |-> Num(0), currency |-> "USD"]

\* A row of table services as the page keeps it after fetching.
StoredService ==
    [id |-> "sv1", category_id |-> "c1", subcategory_id |-> "s1",
     description |-> "site", rate |-> Num(25), currency |-> "USD"]

FetchedServiceLists == { <<>>, <<StoredService>> }

\* The row of StoredService in table services.
StoredRow ==
    [id |-> "sv1", user_id |-> "u1",
     columns |-> [category_id |-> "c1", subcategory_id |-> "s1",
                  description |-> "site", rate |-> Num(25),
                  currency |-> "USD"]]

\* select("*").eq("user_id", user.id) on table services.
ServicesOf(table) ==
    [i \in 1..Len(table) |->
       [id |-> table[i].id,
        category_id |-> table[i].columns.category_id,
        subcategory_id |-> table[i].columns.subcategory_id,
        description |-> table[i].columns.description,
        rate |-> table[i].columns.rate,
        currency |-> table[i].columns.currency]]

SubmitIdle == [pc |-> "idle"]
SaveIdle == [pc |-> "idle", list |-> <<>>, idx |-> 0, userId |-> Null]

ProfileInit ==
    /\ profMounted = FALSE
    /\ name = ""
    /\ email = ""
    /\ bio = ""
    /\ services = <<>>
    /\ categories = <<>>
    /\ subcategories = <<>>
    /\ loading = FALSE
    /\ newService = DefaultNewService
    /\ toast = NoToast
    /\ fetchData = [st \in 1..Len(FetchStages) |-> 0]
    /\ unhandled = FALSE
    /\ submit = SubmitIdle
    /\ save = SaveIdle
    /\ saveWrites = <<>>
    /\ svcStored \in {<<>>, <<StoredRow>>}
    /\ dbUser \in {NoRow, ProfileRow("Ann", "a@x", "")}

RECURSIVE SumTo(_, _)
SumTo(f, n) == IF n = 0 THEN 0 ELSE f[n] + SumTo(f, n - 1)

FetchRunsUnderWay == SumTo(fetchData, Len(FetchStages))

\* The body of the effect without the route guard.
ProfileEffectBody_NoGuard ==
    /\ fetchData' = [fetchData EXCEPT ![1] = @ + 1]
    /\ UNCHANGED route

\* The body of the effect: the route guard, else fetchData() up to its first
\* await.
ProfileEffectBody ==
    IF auth'.user = NullUser
    THEN /\ route' = Login
         /\ UNCHANGED fetchData
    ELSE /\ fetchData' = [fetchData EXCEPT ![1] = @ + 1]
         /\ UNCHANGED route

\* The page is opened: first run of the effect.
ProfileMount ==
    /\ ~profMounted
    /\ profMounted' = TRUE
    /\ UNCHANGED <<auth, dispatchedBy>>
    /\ ProfileEffectBody
    /\ toast' = NoToast
    /\ UNCHANGED <<formFields, services, referenceLists, loading, newService,
                   unhandled, submit, saveRun, dbUser>>
    /\ UNCHANGED profileFrame

\* fetchData resumes after its query number st.
FetchDataStep(st, outcome, fetched) ==
    /\ fetchData[st] > 0
    /\ IF outcome = "throw"
       THEN \* no try/catch in fetchData: its promise rejects
            /\ fetchData' = [fetchData EXCEPT ![st] = @ - 1]
            /\ unhandled' = TRUE
            /\ toast' = NoToast
            /\ UNCHANGED <<formFields, services, referenceLists>>
       ELSE IF outcome = "error"
       THEN /\ fetchData' = [fetchData EXCEPT ![st] = @ - 1]
            /\ toast' = "Error fetching " \o FetchStages[st]
            /\ UNCHANGED <<formFields, services, referenceLists, unhandled>>
       ELSE /\ toast' = NoToast
            /\ fetchData' = [i \in 1..Len(FetchStages) |->
                               CASE i = st     -> fetchData[i] - 1
                                 [] i = st + 1 -> fetchData[i] + 1
                                 [] OTHER      -> fetchData[i]]
            /\ UNCHANGED unhandled
            /\ CASE FetchStages[st] = "categories" ->
                      /\ categories' = CategoriesByName
                      /\ UNCHANGED <<formFields, services, subcategories>>
                 [] FetchStages[st] = "subcategories" ->
                      /\ subcategories' = SubcategoriesByName
                      /\ UNCHANGED <<formFields, services, categories>>
                 [] FetchStages[st] = "profile" ->
                      \* maybeSingle: profileData is the row or null
                      /\ name' = (IF dbUser = NoRow THEN "" ELSE dbUser.name)
                      /\ email' = (IF dbUser = NoRow THEN "" ELSE dbUser.email)
                      /\ bio' = (IF dbUser = NoRow THEN "" ELSE dbUser.bio)
                      /\ UNCHANGED <<services, referenceLists>>
                 [] FetchStages[st] = "services" ->
                      /\ fetched = ServicesOf(svcStored)
                      /\ services' = fetched
                      /\ UNCHANGED <<formFields, referenceLists>>
    /\ UNCHANGED <<auth, dispatchedBy, route, profMounted, loading, newService,
                   submit, saveRun, dbUser>>
    /\ UNCHANGED profileFrame

\* The onChange handlers of the three profile inputs.
SetName(v) ==
    /\ profMounted
    /\ name' = v
    /\ toast' = NoToast
    /\ UNCHANGED <<auth, dispatchedBy, route, profMounted, email, bio, services,
                   referenceLists, loading, newService, fetchData, unhandled,
                   submit, saveRun, dbUser>>
    /\ UNCHANGED profileFrame

SetEmail(v) ==
    /\ profMounted
    /\ email' = v
    /\ toast' = NoToast
    /\ UNCHANGED <<auth, dispatchedBy, route, profMounted, name, bio, services,
                   referenceLists, loading, newService, fetchData, unhandled,
                   submit, saveRun, dbUser>>
    /\ UNCHANGED profileFrame

SetBio(v) ==
    /\ profMounted
    /\ bio' = v
    /\ toast' = NoToast
    /\ UNCHANGED <<auth, dispatchedBy, route, profMounted, name, email, services,
                   referenceLists, loading, newService, fetchData, unhandled,
                   submit, saveRun, dbUser>>
    /\ UNCHANGED profileFrame

\* All three fields, empty or not.
ProfileUpdates_AllFields(n, e, b) == {"name", "email", "bio"}

\* The fields handleSubmit sends: those that are not empty.
ProfileUpdates(n, e, b) ==
    { f \in {"name", "email", "bio"} :
        Truthy(CASE f = "name" -> n [] f = "email" -> e [] f = "bio" -> b) }

\* The rate input (type number, min 0) passes the form's validation.
RateInputValid(r) == r.nan \/ r.v >= 0

\* The Save Profile button (type submit, disabled while loading):
\* handleSubmit up to its first await.
HandleSubmit ==
    /\ profMounted
    /\ ~loading
    /\ RateInputValid(newService.rate)
    /\ IF auth.user = NullUser
       THEN /\ toast' = NoToast
            /\ UNCHANGED <<route, loading, submit>>
       ELSE IF ProfileUpdates(name, email, bio) # {}
       THEN \* supabase.from("user").update(profileUpdates) is awaited
            /\ loading' = TRUE
            /\ submit' = [pc |-> "profile", name |-> name, email |-> email,
                          bio |-> bio, user |-> auth.user]
            /\ toast' = NoToast
            /\ UNCHANGED route
       ELSE \* nothing to send: success toast, navigation, finally
            /\ toast' = ProfileUpdated
            /\ route' = Home
            /\ UNCHANGED <<loading, submit>>
    /\ UNCHANGED <<auth, dispatchedBy, profMounted, formFields, services,
                   referenceLists, newService, fetchData, unhandled, saveRun,
                   dbUser>>
    /\ UNCHANGED profileFrame

\* An upsert: the update creates the row when there is none.
UpdatedRow_Upsert(row, n, e, b) ==
    IF row = NoRow THEN ProfileRow(n, e, b)
    ELSE [row EXCEPT !.name = IF Truthy(n) THEN n ELSE @,
                     !.email = IF Truthy(e) THEN e ELSE @,
                     !.bio = IF Truthy(b) THEN b ELSE @]

\* The row after update(profileUpdates).eq("id", user.id).
UpdatedRow(row, n, e, b) ==
    IF row = NoRow THEN NoRow
    ELSE [row EXCEPT !.name = IF Truthy(n) THEN n ELSE @,
                     !.email = IF Truthy(e) THEN e ELSE @,
                     !.bio = IF Truthy(b) THEN b ELSE @]

\* {...user, ...(name && {name}), ...(email && {email})}
MergedUser(user, n, e) ==
    [user EXCEPT !.name = IF Truthy(n) THEN n ELSE @,
                 !.email = IF Truthy(e) THEN e ELSE @]

\* handleSubmit that does not look at the result of the update of the
\* profile row.
SubmitProfileUpdated_IgnoresError(outcome) ==
    /\ submit.pc = "profile"
    /\ submit' = [submit EXCEPT !.pc = "auth"]
    /\ toast' = NoToast
    /\ dbUser' = (IF outcome = "ok"
                  THEN UpdatedRow(dbUser, submit.name, submit.email, submit.bio)
                  ELSE dbUser)
    /\ UNCHANGED <<route, loading>>
    /\ UNCHANGED <<auth, dispatchedBy, profMounted, formFields, services,
                   referenceLists, newService, fetchData, unhandled, saveRun>>
    /\ UNCHANGED profileFrame

\* handleSubmit resumes after the update of the profile row.
SubmitProfileUpdated(outcome) ==
    /\ submit.pc = "profile"
    /\ IF outcome # "ok"
       THEN \* throw profileError / exception: catch, finally
            /\ toast' = ErrorMessage(outcome)
            /\ loading' = FALSE
            /\ submit' = SubmitIdle
            /\ UNCHANGED <<route, dbUser>>
       ELSE /\ dbUser' = UpdatedRow(dbUser, submit.name, submit.email, submit.bio)
            /\ IF Truthy(submit.email) \/ Truthy(submit.name)
               THEN \* supabase.auth.updateUser is awaited
                    /\ submit' = [submit EXCEPT !.pc = "auth"]
                    /\ toast' = NoToast
                    /\ UNCHANGED <<route, loading>>
               ELSE /\ toast' = ProfileUpdated
                    /\ route' = Home
                    /\ loading' = FALSE
                    /\ submit' = SubmitIdle
    /\ UNCHANGED <<auth, dispatchedBy, profMounted, formFields, services,
                   referenceLists, newService, fetchData, unhandled, saveRun>>
    /\ UNCHANGED profileFrame

\* handleSubmit resumes after supabase.auth.updateUser.  The dispatch
\* replaces the store's user object, so the page's effect runs again and
\* starts fetchData once more.
SubmitAuthUpdated(outcome) ==
    /\ submit.pc = "auth"
    /\ IF outcome # "ok"
       THEN /\ toast' = ErrorMessage(outcome)
            /\ UNCHANGED <<auth, dispatchedBy, route, fetchData>>
       ELSE /\ FetchRunsUnderWay < MaxFetchRuns
            /\ Dispatch(MergedUser(submit.user, submit.name, submit.email),
                        "handleSubmit")
            /\ toast' = ProfileUpdated
            /\ route' = Home
            /\ fetchData' = [fetchData EXCEPT ![1] = @ + 1]
    /\ loading' = FALSE
    /\ submit' = SubmitIdle
    /\ UNCHANGED <<profMounted, formFields, services, referenceLists,
                   newService, unhandled, saveRun, dbUser>>
    /\ UNCHANGED profileFrame

ProfileNext ==
    \/ ProfileMount
    \/ \E st \in 1..Len(FetchStages), o \in QueryOutcomes,
          l \in FetchedServiceLists : FetchDataStep(st, o, l)
    \/ \E v \in Names : SetName(v)
    \/ \E v \in Emails : SetEmail(v)
    \/ \E v \in Bios : SetBio(v)
    \/ HandleSubmit
    \/ \E o \in QueryOutcomes : SubmitProfileUpdated(o)
    \/ \E o \in QueryOutcomes : SubmitAuthUpdated(o)

----------------------------------------------------------------------------
(* From the HomePage to the ProfilePage *)

\* The Profile link of the HomePage (rendered only while user is set): the
\* HomePage unmounts and unsubscribes, the ProfilePage mounts and its effect
\* runs with a user, so fetchData starts.
OpenProfile ==
    /\ homeMounted
    /\ auth.user # NullUser
    /\ ~profMounted
    /\ homeMounted' = FALSE
    /\ profMounted' = TRUE
    /\ route' = "/profile"
    /\ fetchData' = [fetchData EXCEPT ![1] = @ + 1]
    /\ toast' = NoToast
    /\ UNCHANGED <<auth, dispatchedBy, provider, session, homeFetches, logout,
                   authEvents>>
    /\ UNCHANGED <<formFields, services, referenceLists, loading, newService,
                   unhandled, submit, saveRun, dbUser>>
    /\ UNCHANGED <<hookVars, formVars, gatewayVars, dbVars, dataVars>>

\* A getUserProfile started on the HomePage completes after the visitor has
\* moved on to the ProfilePage: the dispatch replaces the store's user
\* object, so the effect of the ProfilePage runs again.
ProfileFetchLands(f, outcome) ==
    /\ profMounted
    /\ f \in Pending(homeFetches)
    /\ IF outcome = "error"
       THEN /\ homeFetches' = (homeFetches \ {f}) \cup {Completed(f, "rejected")}
            /\ UNCHANGED <<auth, dispatchedBy, fetchData>>
       ELSE /\ FetchRunsUnderWay < MaxFetchRuns
            /\ homeFetches' = (homeFetches \ {f}) \cup {Completed(f, "applied")}
            /\ Dispatch([id |-> f.user.id, email |-> f.user.email,
                         name |-> ProfileName(outcome),
                         created_at |-> ProfileCreatedAt(outcome)],
                        "onAuthStateChange")
            /\ fetchData' = [fetchData EXCEPT ![1] = @ + 1]
    /\ toast' = NoToast
    /\ UNCHANGED <<route, provider, session, homeMounted, logout, authEvents>>
    /\ UNCHANGED <<profMounted, formFields, services, referenceLists, loading,
                   newService, unhandled, submit, saveRun, dbUser>>
    /\ UNCHANGED <<hookVars, formVars, gatewayVars, dbVars, dataVars>>

\* getUserProfile completes while the HomePage is the page shown.
ProfileFetchAtHome(f, outcome) ==
    /\ ~profMounted
    /\ ProfileFetchComplete(f, outcome)

\* The HomePage is opened first.
HomeOpen ==
    /\ ~profMounted
    /\ HomeMount

\* The ProfilePage is opened by its address while the HomePage is not shown.
ProfileOpen ==
    /\ ~homeMounted
    /\ ProfileMount

VisitNext ==
    \/ HomeOpen
    \/ HomeUnmount
    \/ ProfileOpen
    \/ \E s \in {NoSession} \cup SessionUsers : AuthStateChange(s)
    \/ \E f \in homeFetches, o \in ProfileOutcomes : ProfileFetchAtHome(f, o)
    \/ \E f \in homeFetches, o \in ProfileOutcomes : ProfileFetchLands(f, o)
    \/ OpenProfile
    \/ \E st \in 1..Len(FetchStages), o \in QueryOutcomes,
          l \in FetchedServiceLists : FetchDataStep(st, o, l)
    \/ \E v \in Names : SetName(v)

----------------------------------------------------------------------------
(* ProfilePage: the service form, the draft list and handleSaveServices *)

\* Bound on the length of the draft list.
MaxDraft == 2

Descriptions == {"", "logo"}
Currencies == {"USD", "EUR"}

Ids(rows) == { rows[i].id : i \in 1..Len(rows) }

\* The onChange handlers of the service form.  A select offers the empty
\* option and the loaded rows; the subcategory select is disabled while no
\* category is chosen and offers the subcategories of the chosen category.
SetCategory(c) ==
    /\ profMounted
    /\ c \in {""} \cup Ids(categories)
    /\ newService' = [newService EXCEPT !.category_id = c, !.subcategory_id = ""]
    /\ toast' = NoToast
    /\ UNCHANGED <<auth, dispatchedBy, route, profMounted, formFields, services,
                   referenceLists, loading, fetchData, unhandled, submit,
                   saveRun, dbUser>>
    /\ UNCHANGED profileFrame

SetSubcategory(sc) ==
    /\ profMounted
    /\ Truthy(newService.category_id)
    /\ sc \in {""} \cup Ids(FilterByCategory(subcategories, newService.category_id))
    /\ newService' = [newService EXCEPT !.subcategory_id = sc]
    /\ toast' = NoToast
    /\ UNCHANGED <<auth, dispatchedBy, route, profMounted, formFields, services,
                   referenceLists, loading, fetchData, unhandled, submit,
                   saveRun, dbUser>>
    /\ UNCHANGED profileFrame

SetDescription(d) ==
    /\ profMounted
    /\ newService' = [newService EXCEPT !.description = d]
    /\ toast' = NoToast
    /\ UNCHANGED <<auth, dispatchedBy, route, profMounted, formFields, services,
                   referenceLists, loading, fetchData, unhandled, submit,
                   saveRun, dbUser>>
    /\ UNCHANGED profileFrame

SetRate(text) ==
    /\ profMounted
    /\ newService' = [newService EXCEPT !.rate = parseFloat(text)]
    /\ toast' = NoToast
    /\ UNCHANGED <<auth, dispatchedBy, route, profMounted, formFields, services,
                   referenceLists, loading, fetchData, unhandled, submit,
                   saveRun, dbUser>>
    /\ UNCHANGED profileFrame

SetCurrency(cur) ==
    /\ profMounted
    /\ newService' = [newService EXCEPT !.currency = cur]
    /\ toast' = NoToast
    /\ UNCHANGED <<auth, dispatchedBy, route, profMounted, formFields, services,
                   referenceLists, loading, fetchData, unhandled, submit,
                   saveRun, dbUser>>
    /\ UNCHANGED profileFrame

\* The guard of addService without the test of the description.
AddServiceRejects_NoDescription(ns) ==
    \/ ~Truthy(ns.category_id)
    \/ ~Truthy(ns.subcategory_id)
    \/ ~TruthyNumber(ns.rate)

\* The guard of addService: !category_id || !subcategory_id || !description
\* || !rate.
AddServiceRejects(ns) ==
    \/ ~Truthy(ns.category_id)
    \/ ~Truthy(ns.subcategory_id)
    \/ ~Truthy(ns.description)
    \/ ~TruthyNumber(ns.rate)

\* addService that puts the new entry first and keeps the form as it is.
AddService_Prepend ==
    /\ profMounted
    /\ IF AddServiceRejects(newService)
       THEN /\ toast' = FillAllFields
            /\ UNCHANGED <<services, newService>>
       ELSE /\ Len(services) < MaxDraft
            /\ services' = <<newService>> \o services
            /\ newService' = newService
            /\ toast' = NoToast
    /\ UNCHANGED <<auth, dispatchedBy, route, profMounted, formFields,
                   referenceLists, loading, fetchData, unhandled, submit,
                   saveRun, dbUser>>
    /\ UNCHANGED profileFrame

\* The Add Service button (type button: no form validation runs).
AddService ==
    /\ profMounted
    /\ IF AddServiceRejects(newService)
       THEN /\ toast' = FillAllFields
            /\ UNCHANGED <<services, newService>>
       ELSE /\ Len(services) < MaxDraft
            /\ services' = Append(services, newService)
            /\ newService' = DefaultNewService
            /\ toast' = NoToast
    /\ UNCHANGED <<auth, dispatchedBy, route, profMounted, formFields,
                   referenceLists, loading, fetchData, unhandled, submit,
                   saveRun, dbUser>>
    /\ UNCHANGED profileFrame

\* services.filter((_, i) => i !== index)
RemoveAt(list, index) ==
    SubSeq(list, 1, index - 1) \o SubSeq(list, index + 1, Len(list))

\* A Remove button that also deletes the entry's row from table services.
RemoveService_DeletesRow(index) ==
    /\ profMounted
    /\ index \in 1..Len(services)
    /\ services' = RemoveAt(services, index)
    /\ svcStored' = IF "id" \in DOMAIN services[index]
                    THEN SelectSeq(svcStored,
                                   LAMBDA r : r.id # services[index].id)
                    ELSE svcStored
    /\ toast' = NoToast
    /\ UNCHANGED <<auth, dispatchedBy, route, profMounted, formFields,
                   referenceLists, loading, newService, fetchData, unhandled,
                   submit, save, saveWrites, dbUser>>
    /\ UNCHANGED profileFrame

\* The Remove button of the entry at `index`.
RemoveService(index) ==
    /\ profMounted
    /\ index \in 1..Len(services)
    /\ services' = RemoveAt(services, index)
    /\ toast' = NoToast
    /\ UNCHANGED <<auth, dispatchedBy, route, profMounted, formFields,
                   referenceLists, loading, newService, fetchData, unhandled,
                   submit, saveRun, dbUser>>
    /\ UNCHANGED profileFrame

\* categories.find((c) => c.id === categoryId)?.name || ""
RECURSIVE FindName(_, _)
FindName(rows, id) ==
    IF rows = <<>> THEN ""
    ELSE IF Head(rows).id = id THEN Head(rows).name
    ELSE FindName(Tail(rows), id)

getCategoryName(categoryId) == FindName(categories, categoryId)

getSubcategoryName(subcategoryId) == FindName(subcategories, subcategoryId)

HasId(service) == "id" \in DOMAIN service

\* The columns both writes carry.
ServiceColumns(service) ==
    [category_id |-> service.category_id,
     subcategory_id |-> service.subcategory_id,
     description |-> service.description,
     rate |-> service.rate,
     currency |-> service.currency]

\* The write of the loop body for one entry, that always inserts.
WriteFor_AlwaysInsert(service, userId) ==
    [op |-> "insert", user_id |-> userId, columns |-> ServiceColumns(service),
     result |-> "pending"]

\* The write of the loop body for one entry: update(...).eq("id", service.id)
\* or insert({user_id: user.id, ...}).
WriteFor(service, userId) ==
    IF HasId(service)
    THEN [op |-> "update", id |-> service.id, columns |-> ServiceColumns(service),
          result |-> "pending"]
    ELSE [op |-> "insert", user_id |-> userId, columns |-> ServiceColumns(service),
          result |-> "pending"]

\* Bound on the number of rows of table services.
MaxStored == 4

\* The id the table gives a new row (uuid_generate_v4()).
NewId(table) == "sv" \o ToString(Len(table) + 1)

\* Table services after a write that succeeded: update ... where id = the
\* entry's id, or insert of a new row.
ApplyWrite(table, write) ==
    IF write.op = "update"
    THEN [i \in 1..Len(table) |->
            IF table[i].id = write.id
            THEN [table[i] EXCEPT !.columns = write.columns]
            ELSE table[i]]
    ELSE Append(table, [id |-> NewId(table), user_id |-> write.user_id,
                        columns |-> write.columns])

\* The log with the result of its last write filled in.
Settled(log, result) == [log EXCEPT ![Len(log)].result = result]

\* The Save Services button that stays enabled while loading.
HandleSaveServices_NotDisabled ==
    /\ profMounted
    /\ save.pc # "writing"
    /\ IF auth.user = NullUser
       THEN /\ toast' = NoToast
            /\ UNCHANGED <<loading, save, saveWrites, svcStored>>
       ELSE IF services = <<>>
       THEN /\ toast' = ServicesUpdated
            /\ save' = [pc |-> "done", list |-> <<>>, idx |-> 0,
                        userId |-> auth.user.id]
            /\ saveWrites' = <<>>
            /\ loading' = FALSE
            /\ UNCHANGED svcStored
       ELSE /\ Len(svcStored) + Len(services) <= MaxStored
            /\ loading' = TRUE
            /\ save' = [pc |-> "writing", list |-> services, idx |-> 1,
                        userId |-> auth.user.id]
            /\ saveWrites' = <<WriteFor(services[1], auth.user.id)>>
            /\ toast' = NoToast
            /\ UNCHANGED svcStored
    /\ UNCHANGED <<auth, dispatchedBy, route, profMounted, formFields, services,
                   referenceLists, newService, fetchData, unhandled, submit,
                   dbUser>>
    /\ UNCHANGED profileFrame

\* The Save Services button (type button, disabled while loading):
\* handleSaveServices up to its first await.  The handler walks the list and
\* uses the user of the render it was created in.
HandleSaveServices ==
    /\ profMounted
    /\ ~loading
    /\ IF auth.user = NullUser
       THEN /\ toast' = NoToast
            /\ UNCHANGED <<loading, save, saveWrites, svcStored>>
       ELSE IF services = <<>>
       THEN /\ toast' = ServicesUpdated
            /\ save' = [pc |-> "done", list |-> <<>>, idx |-> 0,
                        userId |-> auth.user.id]
            /\ saveWrites' = <<>>
            /\ UNCHANGED <<loading, svcStored>>
       ELSE /\ Len(svcStored) + Len(services) <= MaxStored
            /\ loading' = TRUE
            /\ save' = [pc |-> "writing", list |-> services, idx |-> 1,
                        userId |-> auth.user.id]
            /\ saveWrites' = <<WriteFor(services[1], auth.user.id)>>
            /\ toast' = NoToast
            /\ UNCHANGED svcStored
    /\ UNCHANGED <<auth, dispatchedBy, route, profMounted, formFields, services,
                   referenceLists, newService, fetchData, unhandled, submit,
                   dbUser>>
    /\ UNCHANGED profileFrame

\* handleSaveServices that goes on with the next entry after a write that
\* failed.
SaveWriteComplete_KeepsGoing(outcome) ==
    /\ save.pc = "writing"
    /\ LET result == IF outcome = "ok" THEN "ok" ELSE "failed"
           table == IF outcome = "ok"
                    THEN ApplyWrite(svcStored, saveWrites[Len(saveWrites)])
                    ELSE svcStored
       IN  IF save.idx < Len(save.list)
           THEN /\ saveWrites' = Append(Settled(saveWrites, result),
                                        WriteFor(save.list[save.idx + 1],
                                                 save.userId))
                /\ svcStored' = table
                /\ save' = [save EXCEPT !.idx = @ + 1]
                /\ toast' = NoToast
                /\ UNCHANGED loading
           ELSE /\ saveWrites' = Settled(saveWrites, result)
                /\ svcStored' = table
                /\ toast' = ServicesUpdated
                /\ loading' = FALSE
                /\ save' = [save EXCEPT !.pc = "done"]
    /\ UNCHANGED <<auth, dispatchedBy, route, profMounted, formFields, services,
                   referenceLists, newService, fetchData, unhandled, submit,
                   dbUser>>
    /\ UNCHANGED profileFrame

\* handleSaveServices resumes after the write of entry save.idx.
SaveWriteComplete(outcome) ==
    /\ save.pc = "writing"
    /\ IF outcome # "ok"
       THEN \* throw: catch, finally
            /\ saveWrites' = Settled(saveWrites, "failed")
            /\ UNCHANGED svcStored
            /\ toast' = ErrorMessage(outcome)
            /\ loading' = FALSE
            /\ save' = [save EXCEPT !.pc = "failed"]
       ELSE IF save.idx < Len(save.list)
       THEN /\ saveWrites' = Append(Settled(saveWrites, "ok"),
                                    WriteFor(save.list[save.idx + 1], save.userId))
            /\ svcStored' = ApplyWrite(svcStored, saveWrites[Len(saveWrites)])
            /\ save' = [save EXCEPT !.idx = @ + 1]
            /\ toast' = NoToast
            /\ UNCHANGED loading
       ELSE /\ saveWrites' = Settled(saveWrites, "ok")
            /\ svcStored' = ApplyWrite(svcStored, saveWrites[Len(saveWrites)])
            /\ toast' = ServicesUpdated
            /\ loading' = FALSE
            /\ save' = [save EXCEPT !.pc = "done"]
    /\ UNCHANGED <<auth, dispatchedBy, route, profMounted, formFields, services,
                   referenceLists, newService, fetchData, unhandled, submit,
                   dbUser>>
    /\ UNCHANGED profileFrame

\* The options of the subcategory select of the ProfilePage, and those of the
\* ServiceForm when it is given the list `subCategories`.
SubcategoryOptions == FilterByCategory(subcategories, newService.category_id)

FormSubcategoryOptions(subCategories) == FilterByCategory(subCategories, formCategory)

DraftNext ==
    \/ \E c \in {""} \cup CategoryIds : SetCategory(c)
    \/ \E sc \in {""} \cup Ids(SubcategoryRows) : SetSubcategory(sc)
    \/ \E d \in Descriptions : SetDescription(d)
    \/ \E text \in RateInputs : SetRate(text)
    \/ \E cur \in Currencies : SetCurrency(cur)
    \/ AddService
    \/ \E i \in 1..MaxDraft : RemoveService(i)

SaveNext ==
    \/ HandleSaveServices
    \/ \E o \in QueryOutcomes : SaveWriteComplete(o)
    \/ AddService
    \/ \E i \in 1..MaxDraft : RemoveService(i)

\* Entries the draft list can hold: a fetched row, and two that addService
\* accepted.
WebEntry ==
    [category_id |-> "c1", subcategory_id |-> "s2", description |-> "logo",
     rate |-> Num(25), currency |-> "USD"]

MobileEntry ==
    [category_id |-> "c2", subcategory_id |-> "s3", description |-> "logo",
     rate |-> Num(0 - 5), currency |-> "EUR"]

DraftEntries == {StoredService, WebEntry, MobileEntry}

DraftLists ==
    UNION { [1..n -> DraftEntries] : n \in 0..MaxDraft }

\* The page once fetchData has returned, with or without the lists.
ProfileLoaded ==
    /\ profMounted = TRUE
    /\ name = ""
    /\ email = ""
    /\ bio = ""
    /\ \/ categories = CategoriesByName /\ subcategories = SubcategoriesByName
       \/ categories = CategoriesByName /\ subcategories = <<>>
       \/ categories = <<>> /\ subcategories = <<>>
    /\ loading = FALSE
    /\ toast = NoToast
    /\ fetchData = [st \in 1..Len(FetchStages) |-> 0]
    /\ unhandled = FALSE
    /\ submit = SubmitIdle
    /\ save = SaveIdle
    /\ saveWrites = <<>>
    /\ svcStored = <<StoredRow>>
    /\ dbUser = NoRow

----------------------------------------------------------------------------
(* ServiceForm *)

\* Bound on the number of submissions of the form.
MaxSubmits == 2

FormInit ==
    /\ formCategory = ""
    /\ formSubcategory = ""
    /\ formDescription = ""
    /\ formRate = ""
    /\ addServiceCalls = <<>>

\* onCategoryChange of the page: setSelectedCategory, setSelectedSubcategory("").
\* The empty option is disabled and cannot be chosen.
FormCategoryChange(c) ==
    /\ c \in CategoryIds
    /\ formCategory' = c
    /\ formSubcategory' = ""
    /\ UNCHANGED <<formDescription, formRate, addServiceCalls>>
    /\ UNCHANGED formFrame

\* onSubcategoryChange: the select is disabled while no category is chosen
\* and offers the subcategories of the chosen category.
FormSubcategoryChange(sc) ==
    /\ Truthy(formCategory)
    /\ sc \in Ids(FilterByCategory(SubcategoryRows, formCategory))
    /\ formSubcategory' = sc
    /\ UNCHANGED <<formCategory, formDescription, formRate, addServiceCalls>>
    /\ UNCHANGED formFrame

\* The user types in the textarea and in the number input.
FormTypeDescription(d) ==
    /\ formDescription' = d
    /\ UNCHANGED <<formCategory, formSubcategory, formRate, addServiceCalls>>
    /\ UNCHANGED formFrame

FormTypeRate(text) ==
    /\ formRate' = text
    /\ UNCHANGED <<formCategory, formSubcategory, formDescription, addServiceCalls>>
    /\ UNCHANGED formFrame

\* The browser's validation of the form before it fires onSubmit: the
\* textarea and the number input are `required`, the input has min="0"; the
\* two selects carry no constraint.
FormValid ==
    /\ Truthy(formDescription)
    /\ ~parseFloat(formRate).nan
    /\ parseFloat(formRate).v >= 0

\* The value of a select in the submitted form data: a select whose chosen
\* option is the disabled empty one, or which is disabled, contributes none.
SelectValue(v) == IF Truthy(v) THEN v ELSE Null

\* The submit button: handleSubmit reads the form data and calls
\* add.addService with it.
FormSubmit ==
    /\ FormValid
    /\ Len(addServiceCalls) < MaxSubmits
    /\ addServiceCalls' = Append(addServiceCalls,
           [category_id |-> SelectValue(formCategory),
            subcategory_id |-> SelectValue(formSubcategory),
            description |-> formDescription,
            rate_per_hour |-> formRate])
    /\ UNCHANGED <<formCategory, formSubcategory, formDescription, formRate>>
    /\ UNCHANGED formFrame

FormNext ==
    \/ \E c \in CategoryIds : FormCategoryChange(c)
    \/ \E sc \in Ids(SubcategoryRows) : FormSubcategoryChange(sc)
    \/ \E d \in Descriptions : FormTypeDescription(d)
    \/ \E text \in RateInputs : FormTypeRate(text)
    \/ FormSubmit

\* The selects of both forms, with whatever reference data is loaded.
SelectNext ==
    \/ \E c \in {""} \cup Ids(SeedCategoryRows) : SetCategory(c)
    \/ \E sc \in {""} \cup Ids(SeedSubcategoryRows) : SetSubcategory(sc)
    \/ \E d \in Descriptions : SetDescription(d)
    \/ \E c \in CategoryIds : FormCategoryChange(c)

----------------------------------------------------------------------------
(* The AddServicePage built on the two hooks, with its ServiceForm *)

\* onSubcategoryChange={setSelectedSubcategory} of the page that uses
\* useServiceSubcategories(selectedCategory): the form is rendered once the
\* categories are loaded, its subcategory select is disabled while no
\* category is chosen and offers the rows of the hook's list that have the
\* chosen category.  formSubcategory is this page's selectedSubcategory;
\* its onCategoryChange is setSelectedCategory alone (CategoryChange).
PageSubcategoryChange(sc) ==
    /\ pagePhase = "mounted"
    /\ ~catState.loading
    /\ catState.error = Null
    /\ Truthy(selectedCategory)
    /\ sc \in Ids(FilterByCategory(subState.subCategories, selectedCategory))
    /\ formSubcategory' = sc
    /\ UNCHANGED <<formCategory, formDescription, formRate, addServiceCalls>>
    /\ UNCHANGED formFrame

PickNext ==
    \/ HookNext
    \/ \E sc \in Ids(SubcategoryRows) : PageSubcategoryChange(sc)

----------------------------------------------------------------------------
(* useServiceData and the AddServicePage built on it *)

DataInitialState ==
    [categories |-> <<>>, subCategories |-> <<>>, loading |-> TRUE, error |-> Null]

DataInit ==
    /\ dataPhase = "init"
    /\ dataState = DataInitialState
    /\ dataFetch = "none"

\* `data || []` of a call that resolved with rows or with null.
OrEmpty(rows, outcome) == IF outcome = "rows" THEN rows ELSE <<>>

\* First commit: the effect calls fetchData(), which runs up to its await.
DataMount ==
    /\ dataPhase = "init"
    /\ dataPhase' = "mounted"
    /\ dataFetch' = "pending"
    /\ UNCHANGED dataState
    /\ UNCHANGED <<formVars, dataFrame>>

\* The effect has no cleanup: unmounting leaves the request and its
\* continuation as they are.
DataUnmount ==
    /\ dataPhase = "mounted"
    /\ dataPhase' = "unmounted"
    /\ UNCHANGED <<dataState, dataFetch>>
    /\ UNCHANGED <<formVars, dataFrame>>

\* fetchData after the await of Promise.all: the try, catch and finally
\* branches.
DataFetchContinuation(catOutcome, subOutcome) ==
    IF catOutcome = "throw" \/ subOutcome = "throw"
    THEN dataState' = [dataState EXCEPT !.error = FetchErrorMessage,
                                        !.loading = FALSE]
    ELSE dataState' = [dataState EXCEPT
                          !.categories = OrEmpty(CategoryRows, catOutcome),
                          !.subCategories = OrEmpty(SubcategoryRows, subOutcome),
                          !.loading = FALSE]

DataFetchComplete(catOutcome, subOutcome) ==
    /\ dataFetch = "pending"
    /\ dataFetch' = "settled"
    /\ DataFetchContinuation(catOutcome, subOutcome)
    /\ UNCHANGED dataPhase
    /\ UNCHANGED <<formVars, dataFrame>>

\* The page renders the ServiceForm once the hook is neither loading nor in
\* error; the form is then used.
FormShown ==
    /\ dataPhase = "mounted"
    /\ ~dataState.loading
    /\ dataState.error = Null

FormUse ==
    /\ FormShown
    /\ FormNext

DataNext ==
    \/ DataMount
    \/ \E c \in FetchOutcomes, sc \in FetchOutcomes : DataFetchComplete(c, sc)
    \/ DataUnmount
    \/ FormUse

----------------------------------------------------------------------------
(* The gateways: supabaseAuth, supabaseDb, supabaseStorage *)

\* Bound on the number of gateway operations in one run.
MaxCalls == 2

AuthOps == {"signUp", "signIn", "signOut", "getCurrentUser", "updateProfile"}
DbOps == {"createUser", "getUser", "updateUser", "createBlog", "getBlogs",
          "getUserBlogs", "updateBlog", "deleteBlog"}
StorageOps == {"uploadFile", "deleteFile"}
GatewayOps == AuthOps \cup DbOps \cup StorageOps

\* The operations that return {error} alone.
ErrorOnlyOps == {"signOut", "deleteBlog", "deleteFile"}

UserIds == {"u1", "u2"}

\* `null` as data, and what a call other than a read of users gives as data.
NoData == [id |-> Null]
SomeData == [id |-> "data"]

\* The error of the client when .single() finds no row (or several).
NoSingleRow == "PGRST116"

\* .single() of the client library: exactly one row is its data, any other
\* number of rows is an error.
Single(rows) ==
    IF Cardinality(rows) = 1
    THEN [data |-> [id |-> CHOOSE r \in rows : TRUE], error |-> Null]
    ELSE [data |-> NoData, error |-> NoSingleRow]

\* What the client call inside operation `op` resolves to when the backend
\* answers (outcome "ok") or reports a failure (outcome "error").
ClientResult(op, userId, outcome) ==
    IF outcome = "error" THEN [data |-> NoData, error |-> BackendError]
    ELSE IF op = "getUser"
    THEN \* from("users").select("*").eq("id", userId).single()
         Single({ r \in gwUsers : r = userId })
    ELSE [data |-> SomeData, error |-> Null]

\* return { data, error } / return { user, error } / return { error }
Returned(op, r) ==
    IF op \in ErrorOnlyOps THEN [error |-> r.error]
    ELSE [data |-> r.data, error |-> r.error]

NoCall == [op |-> "none", userId |-> Null]

NoResult ==
    [kind |-> "none", op |-> "none", userId |-> Null, outcome |-> "none",
     value |-> [error |-> Null]]

GatewayInit ==
    /\ gwUsers \in SUBSET UserIds
    /\ gwCall = NoCall
    /\ gwResult = NoResult
    /\ gwCalls = 0

\* A caller starts operation `op` (for the user `userId` where the operation
\* takes one): the operation runs up to its await.
GatewayCall(op, userId) ==
    /\ gwCall = NoCall
    /\ gwCalls < MaxCalls
    /\ gwCall' = [op |-> op, userId |-> userId]
    /\ gwCalls' = gwCalls + 1
    /\ UNCHANGED <<gwUsers, gwResult>>
    /\ UNCHANGED gatewayFrame

\* The awaited client call settles and the operation completes.  No
\* operation has a try/catch: an exception of the client call leaves the
\* operation as an exception.
GatewayComplete(outcome) ==
    /\ gwCall # NoCall
    /\ gwCall' = NoCall
    /\ gwResult' =
         IF outcome = "throw"
         THEN [kind |-> "thrown", op |-> gwCall.op, userId |-> gwCall.userId,
               outcome |-> outcome, value |-> [error |-> NetworkError]]
         ELSE [kind |-> "returned", op |-> gwCall.op, userId |-> gwCall.userId,
               outcome |-> outcome,
               value |-> Returned(gwCall.op,
                                  ClientResult(gwCall.op, gwCall.userId, outcome))]
    /\ gwUsers' = IF gwCall.op = "createUser" /\ outcome = "ok"
                  THEN gwUsers \cup {gwCall.userId}
                  ELSE gwUsers
    /\ UNCHANGED gwCalls
    /\ UNCHANGED gatewayFrame

GatewayNext ==
    \/ \E op \in GatewayOps, u \in UserIds : GatewayCall(op, u)
    \/ \E o \in QueryOutcomes : GatewayComplete(o)

----------------------------------------------------------------------------
(* The schema's row-level security *)

\* Who issues a statement: a signed-in identity, or nobody (auth.uid() is
\* NULL).
Actors == {Null} \cup UserIds

ServiceIds == {"sv1", "sv2"}

\* The tables with ROW LEVEL SECURITY enabled.
RlsTables == {"categories", "subcategories", "services"}

\* The policy on services with USING (true): anybody manages any row.
Policies_AnybodyManages ==
    { [name |-> "Categories are viewable by everyone",
       table |-> "categories", cmd |-> "SELECT", using |-> "true"],
      [name |-> "Subcategories are viewable by everyone",
       table |-> "subcategories", cmd |-> "SELECT", using |-> "true"],
      [name |-> "Services are viewable by everyone",
       table |-> "services", cmd |-> "SELECT", using |-> "true"],
      [name |-> "Users can manage their own services",
       table |-> "services", cmd |-> "ALL", using |-> "true"] }

\* The CREATE POLICY statements.
Policies ==
    { [name |-> "Categories are viewable by everyone",
       table |-> "categories", cmd |-> "SELECT", using |-> "true"],
      [name |-> "Subcategories are viewable by everyone",
       table |-> "subcategories", cmd |-> "SELECT", using |-> "true"],
      [name |-> "Services are viewable by everyone",
       table |-> "services", cmd |-> "SELECT", using |-> "true"],
      [name |-> "Users can manage their own services",
       table |-> "services", cmd |-> "ALL", using |-> "auth.uid() = user_id"] }

\* SQL equality: a comparison with NULL is not true.
SqlEq(x, y) == x # Null /\ y # Null /\ x = y

\* The USING expression of a policy on a row, for the actor uid.
PolicyHolds(p, row, uid) ==
    IF p.using = "true" THEN TRUE ELSE SqlEq(uid, row.user_id)

\* Policies are permissive: a row passes when one policy for the command (or
\* FOR ALL) holds; a policy without WITH CHECK checks new rows with USING.
Allowed(table, cmd, row, uid) ==
    \E p \in Policies :
        /\ p.table = table
        /\ p.cmd \in {cmd, "ALL"}
        /\ PolicyHolds(p, row, uid)

SeqRange(rows) == { rows[i] : i \in 1..Len(rows) }

TableRows(table) ==
    CASE table = "categories"    -> SeqRange(CategoryRows)
      [] table = "subcategories" -> SeqRange(SubcategoryRows)
      [] table = "services"      -> svcRows

NoStatement ==
    [actor |-> Null, cmd |-> "none", table |-> "none", ok |-> TRUE, rows |-> {}]

DbInit ==
    /\ svcRows = {}
    /\ dbReply = NoStatement

\* INSERT INTO services: the new row gets a fresh id; it must pass the check.
DbInsert(uid, id, owner) ==
    /\ id \notin { r.id : r \in svcRows }
    /\ LET row == [id |-> id, user_id |-> owner]
       IN  IF Allowed("services", "INSERT", row, uid)
           THEN /\ svcRows' = svcRows \cup {row}
                /\ dbReply' = [actor |-> uid, cmd |-> "INSERT", table |-> "services",
                               ok |-> TRUE, rows |-> {row}]
           ELSE /\ svcRows' = svcRows
                /\ dbReply' = [actor |-> uid, cmd |-> "INSERT", table |-> "services",
                               ok |-> FALSE, rows |-> {}]
    /\ UNCHANGED dbFrame

\* UPDATE services SET user_id = owner, ... WHERE id = id: the rows that pass
\* USING are updated, and each new row must pass the check.
DbUpdate(uid, id, owner) ==
    /\ LET hit == { r \in svcRows : r.id = id /\ Allowed("services", "UPDATE", r, uid) }
           new == { [r EXCEPT !.user_id = owner] : r \in hit }
       IN  IF \A r \in new : Allowed("services", "UPDATE", r, uid)
           THEN /\ svcRows' = (svcRows \ hit) \cup new
                /\ dbReply' = [actor |-> uid, cmd |-> "UPDATE", table |-> "services",
                               ok |-> TRUE, rows |-> new]
           ELSE /\ svcRows' = svcRows
                /\ dbReply' = [actor |-> uid, cmd |-> "UPDATE", table |-> "services",
                               ok |-> FALSE, rows |-> {}]
    /\ UNCHANGED dbFrame

\* DELETE FROM services WHERE id = id: the rows that pass USING are deleted.
DbDelete(uid, id) ==
    /\ LET hit == { r \in svcRows : r.id = id /\ Allowed("services", "DELETE", r, uid) }
       IN  /\ svcRows' = svcRows \ hit
           /\ dbReply' = [actor |-> uid, cmd |-> "DELETE", table |-> "services",
                          ok |-> TRUE, rows |-> hit]
    /\ UNCHANGED dbFrame

\* SELECT * FROM table: the rows that pass USING.
DbSelect(uid, table) ==
    /\ dbReply' = [actor |-> uid, cmd |-> "SELECT", table |-> table, ok |-> TRUE,
                   rows |-> { r \in TableRows(table) :
                                Allowed(table, "SELECT", r, uid) }]
    /\ UNCHANGED svcRows
    /\ UNCHANGED dbFrame

DbNext ==
    \/ \E uid \in Actors, id \in ServiceIds, owner \in Actors : DbInsert(uid, id, owner)
    \/ \E uid \in Actors, id \in ServiceIds, owner \in Actors : DbUpdate(uid, id, owner)
    \/ \E uid \in Actors, id \in ServiceIds : DbDelete(uid, id)
    \/ \E uid \in Actors, table \in RlsTables : DbSelect(uid, table)

\* The store as the page finds it: nobody signed in, or u1 signed in by the
\* HomePage callback.
SignedOutStore ==
    /\ auth = StoreInitialState
    /\ dispatchedBy = "none"

SignedInStore ==
    /\ auth = setUser(u1)
    /\ dispatchedBy = "onAuthStateChange"

----------------------------------------------------------------------------
(* Specifications *)

\* The pages that are not open.
HookIdle ==
    /\ HookInit
    /\ selectedCategory = ""

HomeIdle ==
    /\ provider = "supabase"
    /\ session \in {NoSession} \cup SessionUsers
    /\ homeMounted = FALSE
    /\ homeFetches = {}
    /\ logout = "idle"
    /\ authEvents = 0

ProfileIdle ==
    /\ ProfileInit
    /\ dbUser = NoRow
    /\ svcStored = <<>>

FormIdle == FormInit

GatewayIdle == GatewayInit /\ gwUsers = {}

DbIdle == DbInit

DataIdle == DataInit

\* The add-service page with its two fetch hooks.
HookSpecInit ==
    /\ HookInit
    /\ SignedOutStore /\ route = Home
    /\ HomeIdle /\ session = NoSession
    /\ ProfileIdle
    /\ FormIdle
    /\ GatewayIdle
    /\ DbIdle
    /\ DataIdle

HookSpec == HookSpecInit /\ [][HookNext]_vars

\* The home page with the auth-change subscription and the sign-out handler.
HomeSpecInit == HomeInit /\ HookIdle /\ ProfileIdle /\ FormIdle /\ GatewayIdle
    /\ DbIdle
    /\ DataIdle

HomeSpec == HomeSpecInit /\ [][HomeNext]_vars

\* The profile page: its effect with fetchData, and the profile form.
ProfileSpecInit ==
    /\ ProfileInit
    /\ \/ SignedOutStore /\ session = NoSession
       \/ SignedInStore /\ session = [id |-> "u1", email |-> "a@x"]
    /\ route = "/profile"
    /\ HomeIdle
    /\ HookIdle
    /\ FormIdle
    /\ GatewayIdle
    /\ DbIdle
    /\ DataIdle

ProfileSpec == ProfileSpecInit /\ [][ProfileNext]_vars

\* The profile page after its fetch: the service form and the draft list.
DraftSpecInit ==
    /\ ProfileLoaded
    /\ services \in FetchedServiceLists
    /\ newService = DefaultNewService
    /\ SignedInStore /\ session = [id |-> "u1", email |-> "a@x"]
    /\ route = "/profile"
    /\ HomeIdle
    /\ HookIdle
    /\ FormIdle
    /\ GatewayIdle
    /\ DbIdle
    /\ DataIdle

DraftSpec == DraftSpecInit /\ [][DraftNext]_vars

\* The profile page with a draft list: the bulk save, and the list edited
\* while a save is under way.
SaveSpecInit ==
    /\ ProfileLoaded
    /\ categories = CategoriesByName /\ subcategories = SubcategoriesByName
    /\ services \in DraftLists
    /\ newService \in {DefaultNewService, WebEntry}
    /\ \/ SignedOutStore /\ session = NoSession
       \/ SignedInStore /\ session = [id |-> "u1", email |-> "a@x"]
    /\ route = "/profile"
    /\ HomeIdle
    /\ HookIdle
    /\ FormIdle
    /\ GatewayIdle
    /\ DbIdle
    /\ DataIdle

SaveSpec == SaveSpecInit /\ [][SaveNext]_vars

\* The add-service form.
FormSpecInit ==
    /\ FormInit
    /\ SignedOutStore /\ route = Home
    /\ HomeIdle /\ session = NoSession
    /\ HookIdle
    /\ ProfileIdle
    /\ GatewayIdle
    /\ DbIdle
    /\ DataIdle

FormSpec == FormSpecInit /\ [][FormNext]_vars

\* The add-service page with its two fetch hooks and the selects of its form.
PickSpecInit == HookSpecInit

PickSpec == PickSpecInit /\ [][PickNext]_vars

\* The add-service page that stays mounted, every fetch of
\* useServiceSubcategories completing sooner or later (the network layer
\* resolves or rejects each request).
MountedNext ==
    \/ PageMount
    \/ \E c \in {""} \cup CategoryIds : CategoryChange(c)
    \/ \E f \in subFetches, o \in FetchOutcomes : SubFetchComplete(f, o)
    \/ \E o \in FetchOutcomes : CatFetchComplete(o)

MountedSpecInit == HookSpecInit

MountedSpec ==
    /\ MountedSpecInit
    /\ [][MountedNext]_vars
    /\ WF_vars(\E f \in subFetches, o \in FetchOutcomes : SubFetchComplete(f, o))

\* The profile page with both of its save actions, the profile form and the
\* draft list edited while a save is under way.
EditNext ==
    \/ \E v \in Names : SetName(v)
    \/ \E v \in Bios : SetBio(v)
    \/ HandleSubmit
    \/ \E o \in QueryOutcomes : SubmitProfileUpdated(o)
    \/ \E o \in QueryOutcomes : SubmitAuthUpdated(o)
    \/ HandleSaveServices
    \/ \E o \in QueryOutcomes : SaveWriteComplete(o)
    \/ AddService
    \/ \E i \in 1..MaxDraft : RemoveService(i)

EditSpecInit == SaveSpecInit

EditSpec == EditSpecInit /\ [][EditNext]_vars

\* A visit: the HomePage, then the ProfilePage.
VisitSpecInit ==
    /\ HomeInit
    /\ provider = "supabase"
    /\ HookIdle
    /\ ProfileInit
    /\ FormIdle
    /\ GatewayIdle
    /\ DbIdle
    /\ DataIdle

VisitSpec == VisitSpecInit /\ [][VisitNext]_vars

\* The gateways, called one operation at a time.
GatewaySpecInit ==
    /\ GatewayInit
    /\ SignedOutStore /\ route = Home
    /\ HomeIdle /\ session = NoSession
    /\ HookIdle
    /\ ProfileIdle
    /\ FormIdle
    /\ DbIdle
    /\ DataIdle

GatewaySpec == GatewaySpecInit /\ [][GatewayNext]_vars

\* The database, with statements from every identity.
DbSpecInit ==
    /\ DbInit
    /\ SignedOutStore /\ route = Home
    /\ HomeIdle /\ session = NoSession
    /\ HookIdle
    /\ ProfileIdle
    /\ FormIdle
    /\ GatewayIdle
    /\ DataIdle

DbSpec == DbSpecInit /\ [][DbNext]_vars

\* Both forms with the seed of the reference schema loaded.
SeedSpecInit ==
    /\ profMounted = TRUE
    /\ name = "" /\ email = "" /\ bio = ""
    /\ loading = FALSE
    /\ toast = NoToast
    /\ fetchData = [st \in 1..Len(FetchStages) |-> 0]
    /\ unhandled = FALSE
    /\ submit = SubmitIdle
    /\ save = SaveIdle
    /\ saveWrites = <<>>
    /\ svcStored = <<StoredRow>>
    /\ dbUser = NoRow
    /\ categories = SeedCategoriesByName
    /\ subcategories = SeedSubcategoriesByName
    /\ services = <<>>
    /\ newService = DefaultNewService
    /\ SignedInStore /\ session = [id |-> "u1", email |-> "a@x"]
    /\ route = "/profile"
    /\ HomeIdle
    /\ HookIdle
    /\ FormIdle
    /\ GatewayIdle
    /\ DbIdle
    /\ DataIdle

SeedSpec == SeedSpecInit /\ [][SelectNext]_vars

\* The Session Store in any state.
StoreSpecInit ==
    /\ auth \in StoreStates
    /\ dispatchedBy = "none"
    /\ route \in {Home, "/profile"}
    /\ HomeIdle /\ session = NoSession
    /\ HookIdle
    /\ ProfileIdle
    /\ FormIdle
    /\ GatewayIdle
    /\ DbIdle
    /\ DataIdle

StoreSpec == StoreSpecInit /\ [][StoreNext]_vars

\* The AddServicePage built on useServiceData.
DataSpecInit ==
    /\ DataInit
    /\ FormInit
    /\ SignedOutStore /\ route = Home
    /\ HomeIdle /\ session = NoSession
    /\ HookIdle
    /\ ProfileIdle
    /\ GatewayIdle
    /\ DbIdle

DataSpec == DataSpecInit /\ [][DataNext]_vars

\* The program as a whole.
Init ==
    /\ HookInit /\ HomeInit /\ ProfileInit /\ FormInit /\ GatewayInit /\ DbInit
    /\ DataInit

Next ==
    \/ HookNext \/ HomeNext \/ ProfileNext \/ DraftNext \/ SaveNext \/ FormNext
    \/ VisitNext \/ GatewayNext \/ DbNext \/ SelectNext \/ StoreNext
    \/ DataNext \/ PickNext \/ MountedNext \/ EditNext

Spec == Init /\ [][Next]_vars

----------------------------------------------------------------------------
(* Properties of the fetch hooks *)

\* The rows of the subcategories table that belong to one category.
RowsOfCategory(categoryId) ==
    SelectSeq(SubcategoryRows, LAMBDA r : r.category_id = categoryId)

\* A fetch issued by an effect run that is no longer the latest one.
Stale(f) == f.eff # subEffect

\* C1: a getServicesBySubcategory call issued for a categoryId that has been
\* replaced since never writes the hook state when it completes, with rows,
\* null or an exception and in whatever order the calls complete; and once
\* the page is mounted with no call pending, the hook is not loading and its
\* subCategories are the result for the current categoryId: the rows of that
\* category, or none when the call gave null or failed or the id is empty.
C1_StaleFetchNeverWritten ==
    /\ [][\A f \in Pending(subFetches) :
            (f \notin subFetches' /\ Stale(f)) => subState' = subState]_vars
    /\ []((pagePhase = "mounted" /\ Pending(subFetches) = {}) =>
            /\ ~subState.loading
            /\ subState.subCategories \in {RowsOfCategory(selectedCategory), <<>>}
            /\ (subState.error # Null => subState.subCategories = <<>>))

\* C1 witness: the category went from c1 to c2 while the call for c1 was
\* pending; both calls have completed, the one for c1 was dropped and the
\* state holds the rows of c2.
C1_Witness ==
    /\ pagePhase = "mounted"
    /\ selectedCategory = "c2"
    /\ Pending(subFetches) = {}
    /\ \E f \in subFetches :
          f.categoryId = "c1" /\ f.eff < subEffect /\ f.status = "discarded"
    /\ subState.subCategories = RowsOfCategory("c2")
    /\ subState.subCategories # <<>>

\* C2: after the unmount neither hook state is written again, whatever
\* completes; and the unmount itself leaves every issued call as it was (a
\* pending call stays pending and completes later).
C2_NoWriteAfterUnmount ==
    /\ [][pagePhase = "unmounted" => (subState' = subState /\ catState' = catState)]_vars
    /\ [][(pagePhase = "mounted" /\ pagePhase' = "unmounted") =>
            (subFetches' = subFetches /\ catFetch' = catFetch)]_vars

\* C2 witness: unmounted, and the calls of both hooks that were pending at
\* the unmount have completed since without a write (loading is still TRUE).
C2_Witness ==
    /\ pagePhase = "unmounted"
    /\ catFetch = "discarded"
    /\ catState.loading
    /\ \E f \in subFetches : f.eff = subEffect /\ f.status = "discarded"
    /\ subState.loading

\* C10: every run of the effect with an empty categoryId sets the state to
\* {subCategories: [], loading: false, error: null} and issues no call; no
\* call is ever issued for an empty categoryId.
C10_EmptyCategoryShortCircuit ==
    /\ [][(subEffect' # subEffect /\ selectedCategory' = "") =>
            /\ subState' = [subCategories |-> <<>>, loading |-> FALSE, error |-> Null]
            /\ subFetches' = subFetches]_vars
    /\ [](\A f \in subFetches : f.categoryId # "")

\* C10 witness: the category was changed to empty after a non-empty one whose
\* rows had been loaded; the state is the empty ready state and the second
\* run issued no call.
C10_Witness ==
    /\ pagePhase = "mounted"
    /\ selectedCategory = ""
    /\ subEffect = 2
    /\ \E f \in subFetches : f.eff = 1 /\ f.status = "applied"
    /\ \A f \in subFetches : f.eff # 2
    /\ subState = [subCategories |-> <<>>, loading |-> FALSE, error |-> Null]


----------------------------------------------------------------------------
(* Properties of the home page *)

\* C3: every run of handleLogout ends with the Session Store's identity null
\* and the router sent to /auth/login, whether signOut succeeded, returned an
\* error or threw.
C3_SignOutClearsIdentity ==
    [][(logout = "awaiting" /\ logout' # "awaiting") =>
         (auth'.user = NullUser /\ route' = Login)]_vars

----------------------------------------------------------------------------
(* Properties of the profile page *)

\* C4: every change of the Session Store, that is every dispatch of setUser,
\* is made by the callback of the auth-change subscription; no other handler,
\* ProfilePage.handleSubmit in particular, writes the session state.
C4_OnlySubscriptionWritesStore ==
    dispatchedBy \in {"none", "onAuthStateChange"}

\* A required field of the service form is missing.
MissingField(ns) ==
    \/ ns.category_id = ""
    \/ ns.subcategory_id = ""
    \/ ns.description = ""
    \/ ns.rate.nan

\* C5: whenever addService is called while at least one of category_id,
\* subcategory_id, description and rate is missing from newService, the call
\* is rejected: the draft list and newService stay as they are, the error
\* notification is raised and no backend call is issued.
C5_AddServiceRejectsMissingFields ==
    [][(AddService /\ MissingField(newService)) =>
         /\ services' = services
         /\ newService' = newService
         /\ toast' = FillAllFields
         /\ UNCHANGED <<fetchData, submit, saveRun, dbUser>>]_vars

\* addService has just rejected a form whose only gap is the description.
C5_Witness ==
    /\ toast = FillAllFields
    /\ newService.category_id # ""
    /\ newService.subcategory_id # ""
    /\ newService.description = ""
    /\ ~newService.rate.nan
    /\ newService.rate.v > 0

\* The form holds what the specification calls a valid service.
ValidService(ns) ==
    /\ ns.category_id # ""
    /\ ns.subcategory_id # ""
    /\ ns.description # ""
    /\ ~ns.rate.nan
    /\ ns.rate.v >= 0

NoNegativeRate(list) ==
    \A i \in 1..Len(list) : list[i].rate.nan \/ list[i].rate.v >= 0

\* C7: addService accepts the form exactly when category_id, subcategory_id
\* and description are non-empty and rate is a number >= 0 (rate 0 accepted,
\* a negative rate rejected); so no entry with a negative rate is ever in the
\* draft list.
C7_AcceptsExactlyValidServices ==
    /\ [][AddService =>
            ((toast' # FillAllFields) <=> ValidService(newService))]_vars
    /\ [](NoNegativeRate(services))

\* The rows of a reference list with the given id.
RowsWithId(rows, id) == { i \in 1..Len(rows) : rows[i].id = id }

NameShown(rows, id) ==
    IF RowsWithId(rows, id) = {} THEN ""
    ELSE rows[CHOOSE i \in RowsWithId(rows, id) : TRUE].name

\* C8: a successful addService leaves the draft list one entry longer: the
\* earlier entries are unchanged and in the same order, the new entry is last
\* and carries the fields of the form, and newService is back at its defaults;
\* the category and subcategory names shown for an entry are those of the
\* loaded rows with the same id, and empty when no such row is loaded.
C8_AddServiceAppendsOneEntry ==
    /\ [][(AddService /\ toast' # FillAllFields) =>
            /\ Len(services') = Len(services) + 1
            /\ SubSeq(services', 1, Len(services)) = services
            /\ services'[Len(services')] = newService
            /\ newService' = DefaultNewService]_vars
    /\ [](\A i \in 1..Len(services) :
            /\ getCategoryName(services[i].category_id)
                 = NameShown(categories, services[i].category_id)
            /\ getSubcategoryName(services[i].subcategory_id)
                 = NameShown(subcategories, services[i].subcategory_id))

\* addService has appended a second entry, different from the first, to a
\* list loaded together with its reference lists, and has reset the form.
C8_Witness ==
    /\ Len(services) = 2
    /\ services[1] = StoredService
    /\ ~HasId(services[2])
    /\ services[2].description = "logo"
    /\ services[2].currency = "EUR"
    /\ getCategoryName(services[2].category_id) = "Mobile Development"
    /\ getSubcategoryName(services[2].subcategory_id) = "iOS Development"
    /\ newService = DefaultNewService

\* The write the save issues for an entry of its list.
IsWriteOf(w, entry, userId) ==
    /\ w.columns = [category_id |-> entry.category_id,
                    subcategory_id |-> entry.subcategory_id,
                    description |-> entry.description,
                    rate |-> entry.rate,
                    currency |-> entry.currency]
    /\ IF "id" \in DOMAIN entry
       THEN w.op = "update" /\ w.id = entry.id
       ELSE w.op = "insert" /\ w.user_id = userId

\* C9: for a signed-in user handleSaveServices walks the draft list in order
\* and issues exactly one write per entry: an update of the row with that id
\* for an entry that has an id, an insert with user_id equal to the session
\* identity for an entry without one; when every write has succeeded the
\* success notification is raised.
C9_OneWritePerEntryInOrder ==
    /\ [](save.pc # "idle" =>
            /\ auth.user # NullUser
            /\ Len(saveWrites) = save.idx
            /\ save.idx <= Len(save.list)
            /\ \A i \in 1..Len(saveWrites) :
                 IsWriteOf(saveWrites[i], save.list[i], auth.user.id))
    /\ [](save.pc = "done" =>
            /\ Len(saveWrites) = Len(save.list)
            /\ \A i \in 1..Len(saveWrites) : saveWrites[i].result = "ok")
    /\ [][(HandleSaveServices /\ auth.user # NullUser) =>
            /\ save'.list = services
            /\ (services = <<>> => toast' = ServicesUpdated)]_vars
    /\ [][(save.pc = "writing" /\ save.idx = Len(save.list)
             /\ saveWrites'[Len(saveWrites')].result = "ok") =>
            (save'.pc = "done" /\ toast' = ServicesUpdated)]_vars

\* A save of a stored entry followed by a new one has finished: one update,
\* then one insert, and the success notification.
C9_Witness ==
    /\ save.pc = "done"
    /\ Len(save.list) = 2
    /\ HasId(save.list[1])
    /\ ~HasId(save.list[2])
    /\ saveWrites[1].op = "update"
    /\ saveWrites[2].op = "insert"
    /\ toast = ServicesUpdated

----------------------------------------------------------------------------
(* Properties of ServiceForm *)

\* C6: whatever required fields (category_id, subcategory_id, description,
\* rate_per_hour) are missing from the submitted form data, handleSubmit
\* rejects the submission before it calls add.addService: no call of
\* add.addService carries a missing field.
C6_NoCallWithMissingField ==
    \A i \in 1..Len(addServiceCalls) :
        /\ addServiceCalls[i].category_id \notin {Null, ""}
        /\ addServiceCalls[i].subcategory_id \notin {Null, ""}
        /\ addServiceCalls[i].description \notin {Null, ""}
        /\ addServiceCalls[i].rate_per_hour \notin {Null, ""}

----------------------------------------------------------------------------
(* Properties of the fetch hooks as state machines *)

\* The place of a hook state in idle -> loading -> {ready | errored};
\* "none" when it is in none of the four.
HookPhase(st, rows) ==
    CASE st.loading /\ st.error = Null                    -> "loading"
      [] ~st.loading /\ st.error # Null                   -> "errored"
      [] ~st.loading /\ st.error = Null /\ rows # <<>>    -> "ready"
      [] ~st.loading /\ st.error = Null /\ rows = <<>>    -> "idle"
      [] OTHER                                            -> "none"

SubPhase == HookPhase(subState, subState.subCategories)
CatPhase == HookPhase(catState, catState.categories)

\* C11: a fetch hook is always in exactly one of idle, loading (loading true,
\* error null), ready and errored (loading false, error non-null): loading
\* and a non-null error never hold together; loading is entered only on
\* mount or on a change of the watched parameter, ready and errored only
\* from loading.
C11_HookStateMachine ==
    /\ [](SubPhase # "none" /\ CatPhase # "none")
    /\ [][(SubPhase' = "loading" /\ SubPhase # "loading") =>
            (PageMount \/ \E c \in {""} \cup CategoryIds : CategoryChange(c))]_vars
    /\ [][(SubPhase' \in {"ready", "errored"} /\ SubPhase' # SubPhase) =>
            SubPhase = "loading"]_vars
    /\ [][(CatPhase' \in {"ready", "errored"} /\ CatPhase' # CatPhase) =>
            CatPhase = "loading"]_vars
    /\ [][CatPhase' = "loading" => CatPhase = "loading"]_vars

----------------------------------------------------------------------------
(* Properties of a visit *)

\* C12: for an identity without a profile row the profile fetches complete
\* without an error: fetchData of the ProfilePage raises no error
\* notification, sets name, email and bio to empty values and goes on to
\* fetch the services; the auth-change handler of the HomePage dispatches
\* setUser with name null for that identity.
C12_NoProfileRowIsNoError ==
    /\ [][(dbUser = NoRow /\ FetchDataStep(3, "ok", <<>>)) =>
            /\ toast' = NoToast
            /\ unhandled' = unhandled
            /\ name' = "" /\ email' = "" /\ bio' = ""
            /\ fetchData'[4] = fetchData[4] + 1]_vars
    /\ [][\A f \in homeFetches :
            (ProfileFetchAtHome(f, "none") \/ ProfileFetchLands(f, "none")) =>
              /\ dispatchedBy' = "onAuthStateChange"
              /\ auth'.user.id = f.user.id
              /\ auth'.user.name = Null
              /\ auth'.error = Null
              /\ unhandled' = unhandled]_vars

\* An identity without a row was stored with name null by the HomePage, and
\* the ProfilePage has passed its profile query with empty fields and waits
\* for the services.
C12_Witness ==
    /\ dbUser = NoRow
    /\ auth.user # NullUser
    /\ auth.user.name = Null
    /\ dispatchedBy = "onAuthStateChange"
    /\ profMounted
    /\ name = "" /\ email = "" /\ bio = ""
    /\ fetchData[4] = 1
    /\ toast = NoToast
    /\ ~unhandled

----------------------------------------------------------------------------
(* Properties of the gateways *)

\* C13: supabaseDb.getUser(userId), called for a userId without a row in
\* table users, returns data null together with error null, not a non-null
\* error.
C13_GetUserWithoutRowIsNull ==
    (/\ gwResult.kind = "returned"
     /\ gwResult.op = "getUser"
     /\ gwResult.outcome = "ok"
     /\ gwResult.userId \notin gwUsers)
    => (gwResult.value.data = NoData /\ gwResult.value.error = Null)

\* C15: every operation of the auth, data and storage gateways completes by
\* returning a (result-or-null, error-or-null) pair for every backend
\* outcome, an exception of the backend call included: no operation throws
\* across the gateway boundary.
C15_GatewayNeverThrows ==
    gwResult.kind # "thrown"

----------------------------------------------------------------------------
(* Properties of handleSubmit *)

\* C14: the profile update is idempotent: when the update of a run of
\* handleSubmit has succeeded, a second successful run with the same name,
\* email and bio stores the same field values, and no run changes the number
\* of rows of the profile table (no row is inserted).
C14_ProfileUpdateIdempotent ==
    [][SubmitProfileUpdated("ok") =>
         /\ dbUser' = UpdatedRow(dbUser, submit.name, submit.email, submit.bio)
         /\ UpdatedRow(dbUser', submit.name, submit.email, submit.bio) = dbUser'
         /\ (dbUser' = NoRow) = (dbUser = NoRow)]_vars

\* The row holds the bio an earlier run stored, and a run with the same name,
\* email and bio has sent its update.
C14_Witness ==
    /\ submit.pc = "profile"
    /\ submit.name = "Ann" /\ submit.email = "a@x" /\ submit.bio = "bio"
    /\ dbUser = ProfileRow("Ann", "a@x", "bio")

----------------------------------------------------------------------------
(* Properties of the route guard *)

\* C16: whenever the effect of the ProfilePage runs while the identity of
\* the Session Store is null it navigates to /auth/login and issues no
\* backend query; and whenever the auth-change subscription of the HomePage
\* delivers a null session, the identity is set to null and the application
\* navigates to /auth/login.
C16_RouteGuard ==
    /\ [][(ProfileOpen /\ auth.user = NullUser) =>
            /\ route' = Login
            /\ fetchData' = fetchData
            /\ UNCHANGED <<homeFetches, submit, saveRun, dbUser>>]_vars
    /\ [][(homeMounted /\ AuthStateChange(NoSession)) =>
            /\ auth'.user = NullUser
            /\ route' = Login]_vars

\* A null session was delivered to the HomePage, which sent the visitor to
\* the login route; the ProfilePage was then opened without an identity and
\* started no query.
C16_Witness ==
    /\ profMounted
    /\ auth.user = NullUser
    /\ dispatchedBy = "onAuthStateChange"
    /\ route = Login
    /\ FetchRunsUnderWay = 0
    /\ categories = <<>>

----------------------------------------------------------------------------
(* Properties of the row-level security *)

\* The rows of services a step creates, changes or removes.
Touched == (svcRows \ svcRows') \cup (svcRows' \ svcRows)

\* C17: under the declared policies, for every acting identity u and every
\* sequence of statements, an insert, update or delete on services issued by
\* u only creates or affects rows whose user_id equals u, and a select on
\* categories, subcategories and services is permitted for every identity,
\* an unauthenticated one included.
C17_RowLevelSecurity ==
    /\ [][\A r \in Touched : r.user_id = dbReply'.actor /\ r.user_id # Null]_vars
    /\ [](dbReply.cmd = "SELECT" =>
            (dbReply.ok /\ dbReply.rows = TableRows(dbReply.table)))

\* Both identities own a row, and the delete that u1 issued on the row of u2
\* removed nothing.
C17_Witness ==
    /\ [id |-> "sv1", user_id |-> "u1"] \in svcRows
    /\ [id |-> "sv2", user_id |-> "u2"] \in svcRows
    /\ dbReply.actor = "u1"
    /\ dbReply.cmd = "DELETE"
    /\ dbReply.rows = {}

----------------------------------------------------------------------------
(* Properties of the seeded reference data *)

WebDevelopment == "c1"

WebSubcategoryNames ==
    {"Frontend Development", "Backend Development", "Full Stack Development",
     "E-commerce Development", "CMS Development"}

OptionNames(options) == { options[i].name : i \in 1..Len(options) }

\* C18: with the seed of the reference schema loaded, selecting the category
\* "Web Development" makes the subcategory options exactly the five
\* subcategories seeded for it: none of another category is listed and none
\* of the five is missing.
C18_WebDevelopmentOptions ==
    /\ getCategoryName(WebDevelopment) = "Web Development"
    /\ (newService.category_id = WebDevelopment =>
          /\ Len(SubcategoryOptions) = 5
          /\ OptionNames(SubcategoryOptions) = WebSubcategoryNames)
    /\ (formCategory = WebDevelopment =>
          /\ Len(FormSubcategoryOptions(SeedSubcategoryRows)) = 5
          /\ OptionNames(FormSubcategoryOptions(SeedSubcategoryRows))
               = WebSubcategoryNames)

\* Web Development is chosen in both forms, and one of its five
\* subcategories in the form of the ProfilePage.
C18_Witness ==
    /\ newService.category_id = WebDevelopment
    /\ getSubcategoryName(newService.subcategory_id) = "CMS Development"
    /\ formCategory = WebDevelopment

----------------------------------------------------------------------------
(* Properties of the Session Store *)

\* C19: the single mutation setUser(payload) of the Session Store, applied
\* in any state, sets the identity to the payload (an identity or null), sets
\* loading to false and sets error to null.
C19_SetUserSetsIdentity ==
    [][\A payload \in Payloads, by \in {"onAuthStateChange", "handleSubmit"} :
         StoreDispatch(payload, by) =>
           /\ auth'.user = payload
           /\ auth'.loading = FALSE
           /\ auth'.error = Null]_vars

\* setUser(null) has been dispatched by the subscription callback.
C19_Witness ==
    /\ dispatchedBy = "onAuthStateChange"
    /\ auth = [user |-> NullUser, loading |-> FALSE, error |-> Null]

----------------------------------------------------------------------------
(* Properties of useServiceData *)

\* C20: useServiceData guards against updates after unmount: when the
\* component unmounts while its fetch is in flight, no state write
\* (setCategories, setSubCategories, setError, setLoading) happens when the
\* fetch later resolves or rejects.
C20_NoWriteAfterUnmount ==
    [][dataPhase = "unmounted" => dataState' = dataState]_vars

----------------------------------------------------------------------------
(* Properties of the handling of failures *)

\* C21: every backend call that fails (returns an error or throws) during
\* an action of the user interface is handled where it was triggered: it
\* produces an error notification and is not thrown out of the handler.
\* Here: no promise of the ProfilePage (fetchData, handleSubmit,
\* handleSaveServices) is left rejected, nor the profile fetch that the
\* auth-change handler of the HomePage started.
C21_FailuresHandledWhereTriggered ==
    /\ ~unhandled
    /\ \A f \in homeFetches : f.status # "rejected"

----------------------------------------------------------------------------
(* Properties of handleSubmit *)

NonEmptyFields(n, e, b) ==
    (IF n # "" THEN {"name"} ELSE {}) \cup
    (IF e # "" THEN {"email"} ELSE {}) \cup
    (IF b # "" THEN {"bio"} ELSE {})

\* C22: handleSubmit sends only non-empty fields.  With name, email and bio
\* all empty it issues no backend call and leaves the Session Store (and
\* the profile row) unchanged; otherwise the update of the profile row
\* carries exactly the non-empty fields among name, email, bio, and the
\* update of the auth user is issued only if name or email is non-empty.
C22_SubmitSendsNonEmptyFields ==
    [][ /\ (HandleSubmit /\ auth.user # NullUser) =>
             IF name = "" /\ email = "" /\ bio = ""
             THEN submit' = SubmitIdle /\ auth' = auth /\ dbUser' = dbUser
             ELSE /\ submit'.pc = "profile"
                  /\ ProfileUpdates(submit'.name, submit'.email, submit'.bio)
                       = NonEmptyFields(name, email, bio)
                  /\ auth' = auth
        /\ (SubmitProfileUpdated("ok") /\ dbUser # NoRow) =>
             /\ dbUser'.name = (IF submit.name # "" THEN submit.name
                                ELSE dbUser.name)
             /\ dbUser'.email = (IF submit.email # "" THEN submit.email
                                 ELSE dbUser.email)
             /\ dbUser'.bio = (IF submit.bio # "" THEN submit.bio
                               ELSE dbUser.bio)
        /\ submit'.pc = "auth" =>
             \/ submit.pc = "auth"
             \/ submit.pc = "profile" /\ (submit.name # "" \/ submit.email # "")
        /\ (submit.pc = "profile" /\ submit'.pc = "idle"
              /\ toast' = ProfileUpdated) =>
             (submit.name = "" /\ submit.email = "" /\ auth' = auth)
      ]_vars

\* The update of the profile row that carries bio alone has succeeded and
\* no update of the auth user was issued.
C22_Witness ==
    /\ submit = SubmitIdle
    /\ toast = ProfileUpdated
    /\ dbUser # NoRow
    /\ dbUser.bio = "bio"
    /\ name = ""
    /\ email = ""
    /\ bio = "bio"

----------------------------------------------------------------------------
(* Properties of the profile fetch of the home page *)

\* C23: in the Supabase HomePage, once the subscription has delivered a
\* null session, the Session Store's identity stays null until a later
\* event with a non-null session is delivered: a profile fetch still in
\* flight does not set the identity back to non-null when it resolves,
\* neither after sign-out nor after the page has unsubscribed.
C23_SignedOutStaysSignedOut ==
    [][(provider = "supabase" /\ auth.user = NullUser
          /\ auth'.user # NullUser) =>
         (session # NoSession /\ homeMounted)]_vars

----------------------------------------------------------------------------
(* Properties of the bulk save and the stored rows *)

\* Table services after a run of handleSaveServices over `list` in which
\* every write succeeds.
RECURSIVE SaveAll(_, _, _)
SaveAll(table, list, userId) ==
    IF list = <<>> THEN table
    ELSE SaveAll(ApplyWrite(table, WriteFor(Head(list), userId)),
                 Tail(list), userId)

RowSet(table) == { table[i] : i \in 1..Len(table) }

\* C24: the bulk save is idempotent on an unchanged draft list: after a run
\* of handleSaveServices that succeeded, and with the draft list as that run
\* saved it, a second successful run leaves the same set of stored rows (an
\* entry added with addService is not inserted a second time).
C24_BulkSaveIdempotent ==
    (save.pc = "done" /\ save.list = services) =>
       RowSet(SaveAll(svcStored, services, save.userId)) = RowSet(svcStored)

----------------------------------------------------------------------------
(* Properties of the order of the writes of handleSubmit *)

\* C25: the writes of handleSubmit happen in a fixed order, each conditional
\* on the one before: the update of the auth user is issued only after the
\* update of the profile row succeeded, and the Session Store is updated
\* only after both succeeded; if either fails, the Session Store is
\* unchanged, there is no success notification and no navigation, and
\* loading is false again.
C25_SubmitWritesInOrder ==
    [][ /\ \A o \in {"error", "throw"} :
             (SubmitProfileUpdated(o) \/ SubmitAuthUpdated(o)) =>
               /\ auth' = auth
               /\ toast' = ErrorMessage(o)
               /\ route' = route
               /\ loading' = FALSE
               /\ submit' = SubmitIdle
        /\ \A o \in {"error", "throw"} :
             SubmitProfileUpdated(o) => dbUser' = dbUser
        /\ (submit'.pc = "auth" /\ submit.pc # "auth") =>
             (submit.pc = "profile" /\ SubmitProfileUpdated("ok"))
        /\ auth' # auth => (submit.pc = "auth" /\ SubmitAuthUpdated("ok"))
        /\ (submit.pc # "idle" /\ (toast' = ProfileUpdated \/ route' # route)) =>
             (SubmitProfileUpdated("ok") \/ SubmitAuthUpdated("ok"))
      ]_vars

\* The update of the profile row has succeeded and the update of the auth
\* user is in flight: the row is written, the Session Store is still as it
\* was and loading is true.
C25_Witness ==
    /\ submit.pc = "auth"
    /\ submit.name = "Ann"
    /\ loading
    /\ auth = setUser(u1)
    /\ route = "/profile"
    /\ dbUser # NoRow
    /\ dbUser.bio = "bio"

----------------------------------------------------------------------------
(* Properties of the category and subcategory selects *)

\* The subcategory is empty or a subcategory of the category.
BelongsTo(subcategoryId, categoryId) ==
    \/ subcategoryId = ""
    \/ \E i \in 1..Len(SubcategoryRows) :
         /\ SubcategoryRows[i].id = subcategoryId
         /\ SubcategoryRows[i].category_id = categoryId

\* C26: after any sequence of category and subcategory selections the
\* selected subcategory is empty or a subcategory whose category_id is the
\* selected category; stated here for the ProfilePage's form and for the
\* AddServicePage that is built on the two hooks.
C26_SubcategoryBelongsToCategory ==
    /\ BelongsTo(newService.subcategory_id, newService.category_id)
    /\ BelongsTo(formSubcategory, selectedCategory)

----------------------------------------------------------------------------
(* Properties of a bulk save that fails *)

\* C27: handleSaveServices stops at the first write that fails: no write is
\* issued for a later entry, the writes made for earlier entries stay
\* stored (no rollback), an error notification with the failure's message
\* is raised and no success notification, and loading is false when the
\* handler ends.
C27_SaveStopsAtFirstFailure ==
    /\ [][ /\ \A o \in {"error", "throw"} :
                SaveWriteComplete(o) =>
                  /\ save' = [save EXCEPT !.pc = "failed"]
                  /\ saveWrites' = Settled(saveWrites, "failed")
                  /\ svcStored' = svcStored
                  /\ toast' = ErrorMessage(o)
                  /\ loading' = FALSE
           /\ (save.pc = "failed" /\ save'.pc = "failed") =>
                (saveWrites' = saveWrites /\ svcStored' = svcStored)
         ]_vars
    /\ [](save.pc = "failed" =>
            /\ Len(saveWrites) = save.idx
            /\ \A i \in 1..(Len(saveWrites) - 1) : saveWrites[i].result = "ok"
            /\ saveWrites[Len(saveWrites)].result = "failed")

\* The insert for the first entry is stored and the write for the second
\* entry has failed.
C27_Witness ==
    /\ save.pc = "failed"
    /\ Len(save.list) = 2
    /\ Len(saveWrites) = 2
    /\ saveWrites[1].op = "insert"
    /\ saveWrites[1].result = "ok"
    /\ saveWrites[2].result = "failed"
    /\ Len(svcStored) = 2
    /\ svcStored[2].columns = saveWrites[1].columns
    /\ toast = BackendError
    /\ ~loading

----------------------------------------------------------------------------
(* Liveness of useServiceSubcategories *)

\* C28: if the component stays mounted and every issued fetch sooner or
\* later resolves or rejects, then after the last change of categoryId the
\* hook reaches loading = false and stays there: it does not stay in
\* loading = true forever, whatever the interleaving of category changes
\* and fetch completions.
C28_LoadingEnds == <>[](subState.loading = FALSE)

\* After two changes of the category the fetch of a superseded run was
\* discarded, that of the latest run was applied, and loading is false.
C28_Witness ==
    /\ pagePhase = "mounted"
    /\ subEffect >= 2
    /\ selectedCategory # ""
    /\ Pending(subFetches) = {}
    /\ \E f \in subFetches : f.eff < subEffect /\ f.status = "discarded"
    /\ \E f \in subFetches : f.eff = subEffect /\ f.status = "applied"
    /\ subState.loading = FALSE

----------------------------------------------------------------------------
(* Properties of the two save actions together *)

SubmitInFlight == submit.pc # "idle"
SaveInFlight == save.pc = "writing"

\* C29: at most one save is in flight on the profile page: while loading is
\* true (a handleSubmit or a handleSaveServices has started and not
\* finished) neither save action can be started; and a bulk save in flight
\* writes the draft list as it was when the save started, not the entries
\* added or removed while it runs.
C29_OneSaveInFlight ==
    /\ [](/\ ~(SubmitInFlight /\ SaveInFlight)
          /\ loading <=> (SubmitInFlight \/ SaveInFlight)
          /\ SaveInFlight =>
               /\ save.idx \in 1..Len(save.list)
               /\ Len(saveWrites) = save.idx
               /\ saveWrites[save.idx].columns
                    = ServiceColumns(save.list[save.idx]))
    /\ [][ /\ loading =>
                /\ ~SubmitInFlight => submit' = submit
                /\ ~SaveInFlight => save' = save
           /\ (~SaveInFlight /\ SaveInFlight') => save'.list = services
           /\ (SaveInFlight /\ save'.pc # "idle") => save'.list = save.list
         ]_vars

\* The second write of a bulk save is in flight and the draft list is no
\* longer the list the save started with.
C29_Witness ==
    /\ loading
    /\ SaveInFlight
    /\ ~SubmitInFlight
    /\ save.idx = 2
    /\ services # save.list

----------------------------------------------------------------------------
(* Properties of removeService *)

\* Entry e of the draft list carries the id of stored row r.
EntryOf(e, r) == "id" \in DOMAIN e /\ e.id = r.id

\* C30: removeService(index) removes exactly the entry at that index from
\* the draft list, keeps all other entries in their order and issues no
\* backend call; a stored service removed this way is still stored in table
\* services after a later bulk save (no step deletes a row, and a save
\* leaves the rows alone that no entry of its list carries the id of).
C30_RemoveServiceOnlyEditsDraft ==
    [][ /\ \A index \in 1..MaxDraft :
             RemoveService(index) =>
               /\ Len(services') = Len(services) - 1
               /\ \A j \in 1..(index - 1) : services'[j] = services[j]
               /\ \A j \in index..Len(services') : services'[j] = services[j + 1]
               /\ UNCHANGED <<saveRun, submit, fetchData, dbUser, loading>>
        /\ Len(svcStored') >= Len(svcStored)
        /\ \A k \in 1..Len(svcStored) :
             /\ svcStored'[k].id = svcStored[k].id
             /\ (\A j \in 1..Len(save.list) : ~EntryOf(save.list[j], svcStored[k]))
                  => svcStored'[k] = svcStored[k]
      ]_vars

\* A bulk save has succeeded whose list did not hold the stored service,
\* which is not in the draft list either: its row is stored as it was, next
\* to the row the save inserted.
C30_Witness ==
    /\ save.pc = "done"
    /\ Len(save.list) = 1
    /\ ~HasId(save.list[1])
    /\ services = save.list
    /\ Len(svcStored) = 2
    /\ svcStored[1] = StoredRow
    /\ svcStored[2].columns = ServiceColumns(save.list[1])

============================================================================
